---- MODULE Spec2Model ----
(***************************************************************************)
(* FluxRipper development-loop controller (tools/devloop/fluxripper_dev.py)*)
(*                                                                         *)
(* Part 1: CDCConsole.  One caller thread (connect / disconnect / send),   *)
(* the background reader threads started by connect, the response queue    *)
(* between them, and the target at the far end of the serial line.         *)
(* Part 2: the register helpers (read_memory / write_memory) and the       *)
(* interactive "r" command, over a target that answers every command.      *)
(*                                                                         *)
(* The serial stream is modelled byte by byte.  A byte is a record         *)
(* [c |-> character, cmd |-> k]; cmd is a ghost tag naming the command the *)
(* target was answering when it emitted the byte (the program never reads  *)
(* it).                                                                    *)
(***************************************************************************)
EXTENDS Integers, Sequences, FiniteSets, TLC

\* ------------------------------------------------------------------ bounds
\* Spec (the send protocol on one connection): send calls per behaviour
SendCmds == 3
\* SpecLife (connect / disconnect life cycle): reader threads ever started
\* (successful connect calls) and send calls per behaviour
LifeThreads == 2
LifeCmds == 1
\* SpecBlock (write_block): the longest byte sequence written as a block
MaxBlockLen == 5
\* SpecBuild, SpecBuildRace (RTLBuilder), SpecDevLoop: build workers ever
\* started, and edits of the RTL sources, per behaviour
MaxBuilds == 2
MaxEdits == 2
\* SpecDevLoop: edits of the firmware sources per behaviour
MaxFwEdits == 1

VARIABLES
    serial,         \* self.serial: "none" (None) or "open"
    running,        \* self.running
    reader_thread,  \* self.reader_thread: 0 (None) or the index of the last thread started
    rpc,            \* per reader thread: "unborn", "loop", "body", "split", "dead"
    rbuf,           \* per reader thread: its local `buffer`
    response_queue, \* self.response_queue (FIFO of stripped, non-empty lines)
    rx,             \* bytes waiting in the serial input buffer (in_waiting)
    tout,           \* bytes the target has produced that have not arrived yet
    wire,           \* commands written to the serial port, not yet seen by the target
    cpc,            \* the caller: "idle", "join", "close", "drain", "write", "collect", "get"
    cmd,            \* the command of the send in progress (its index, 1, 2, ...)
    responses,      \* send's local `responses`
    expired,        \* whether time.time() has reached send's `deadline`
    ret,            \* the last call's outcome: [op, val, ok, exc]
    nCmds,          \* send calls made so far
    errAt,          \* ghost: -1, or the number of send calls made when a transport read first raised
    stale,          \* ghost: the lines that were queued when the send in progress was called
    deq             \* ghost: the lines dequeued by the send in progress after its write

VARIABLES
    mem,            \* the target's memory: address -> 32-bit word
    reg,            \* the last register-helper call: what was asked, answered and returned
    lastw,          \* ghost: the write_memory call just before, when the target answered it
    shown           \* what the last call printed for the operator (the interactive "r" command)

VARIABLES
    wb,             \* the write_block call: where it is, its arguments, `words`, the loop index, its result
    bmem,           \* the target's memory under the block: address -> 32-bit word
    issued          \* ghost: the write commands the call has issued, in order, as (address, data) hex words

VARIABLES
    test_runner,    \* DevLoop.test_runner: FALSE (None) or TRUE (a TestRunner exists)
    tests,          \* TestRunner.tests: the registered test cases, in registration order
    results,        \* TestRunner.results: test name -> outcome, "none" where the dict has no entry
    layerReg,       \* the word the target returns for the layer register, NoneV when the read fails
    run,            \* the last run_all / run_quick / run_tests call: where it is, its locals, its result
    log             \* ghost: what the run did with each test it reached, in order

VARIABLES
    build_thread,   \* RTLBuilder.build_thread: 0 (None) or the index of the last worker thread created
    build_status,   \* RTLBuilder.build_status
    last_hash,      \* RTLBuilder.last_hash: NoneV or the hash of a source version
    bitstream_ready,\* RTLBuilder.bitstream_ready (threading.Event): set or not
    wpc,            \* per build worker: "unborn", "start", "run", "hash", "status", "signal", "dead"
    spc,            \* per caller of start_build: "idle", "clear", "spawn"
    sources,        \* the version of the RTL sources on disk
    built,          \* per worker alive: the version of the sources its toolchain run read (-1: none)
    ended,          \* ghost, per build worker: how its toolchain run ended ("none" before)
    busy,           \* ghost: the last start_build call found a build in progress and returned
    raced,          \* ghost: a start_build call passed its liveness test while another call was under way
    waiter          \* a caller of wait_for_build(): "idle", "waiting" (blocked), "released"

VARIABLES
    fs,             \* the tracked files under the RTL directory: file -> content, 0 when absent
    order,          \* the order in which rglob visits the *.v files and the *.sv files
    cache,          \* the cache file .rtl_cache.json: whether it exists, and name -> hash
    last            \* the last operation on the workflow or the directory, and what it returned

VARIABLES
    binary,         \* build/firmware.bin as get_binary() found it: whether it exists, and its bytes
    dep,            \* the FirmwareBuilder.deploy call: where it is and how it ended
    sent,           \* ghost: the console commands the deploy call has issued, in order
    cpu             \* the target's CPU: "running", "halted" or "reset" (reset and not resumed)

VARIABLES
    console,        \* DevLoop.console: FALSE (None) or TRUE (a CDCConsole)
    fwsrc,          \* the version of the firmware sources on disk
    fw_last_hash,   \* FirmwareBuilder.last_hash: NoneV or the hash of a source version
    rel,            \* the DevLoop.fw_reload call: where it is, who called it, how it ended
    st,             \* the DevLoop.status call: how it ended
    watch,          \* the DevLoop.watch_and_reload call: where it is, its locals, how it ended,
                    \* and (ghost) the number of "New bitstream ready!" notifications printed
    proc            \* the process: the operator command, where main is, the exit code

cvars == <<serial, running, reader_thread, rpc, rbuf, response_queue, rx, tout,
           wire, cpc, cmd, responses, expired, ret, nCmds, errAt, stale, deq>>

rvars == <<mem, reg, lastw, shown>>
bvars == <<wb, bmem, issued>>
tvars == <<test_runner, tests, results, layerReg, run, log>>
dvars == <<build_thread, build_status, last_hash, bitstream_ready, wpc, spc, sources, built, ended,
           busy, raced, waiter>>
hvars == <<fs, order, cache, last>>
fvars == <<binary, dep, sent, cpu>>
lvars == <<console, fwsrc, fw_last_hash, rel, st, watch, proc>>
vars == <<cvars, rvars, bvars, tvars, dvars, hvars, fvars, lvars>>
\* what each part of the program leaves alone
exceptConsole == <<rvars, bvars, tvars, dvars, hvars, fvars, lvars>>
exceptRegs == <<cvars, bvars, tvars, dvars, hvars, fvars, lvars>>
exceptBlock == <<cvars, rvars, tvars, dvars, hvars, fvars, lvars>>
exceptTests == <<cvars, rvars, bvars, dvars, hvars, fvars, lvars>>
exceptBuild == <<cvars, rvars, bvars, tvars, hvars, fvars, lvars>>
exceptCache == <<cvars, rvars, bvars, tvars, dvars, fvars, lvars>>
exceptDeploy == <<cvars, rvars, tvars, dvars, hvars, lvars>>
exceptDevLoop == <<cvars, rvars, hvars>>

Threads == 1..LifeThreads

\* ------------------------------------------------------------- characters
LF == "\n"
PromptMarker == ">"
Whitespace == {" ", "\r", "\t"}

Tag(chars, k) == [i \in 1..Len(chars) |-> [c |-> chars[i], cmd |-> k]]
Chars(bytes) == [i \in 1..Len(bytes) |-> bytes[i].c]

\* What the target may answer to one command, as the sequence of its writes:
\* a response line and a prompt line; a blank line and a response line with no
\* prompt; or nothing.  The first write of an answer ends inside a line.
ReplyWithPrompt == << <<"K", LF, ">">>, <<" ", LF>> >>
ReplyNoPrompt == << <<" ", LF, "K">>, <<LF>> >>
ReplySilent == <<>>
\* a response line and a prompt line in a single write
ReplyOneWrite == << <<"K", LF, ">", " ", LF>> >>
ReplyShapes == {ReplyWithPrompt, ReplyNoPrompt, ReplySilent}

\* ---------------------------------------------------------- pure helpers
\* '\n' in buffer
HasLF(buf) == \E i \in 1..Len(buf) : buf[i].c = LF

\* index of the first '\n' of buf (HasLF(buf) assumed)
RECURSIVE FirstLFFrom(_, _)
FirstLFFrom(buf, i) == IF buf[i].c = LF THEN i ELSE FirstLFFrom(buf, i + 1)
FirstLF(buf) == FirstLFFrom(buf, 1)

\* line, buffer = buffer.split('\n', 1)
SplitHead(buf) == SubSeq(buf, 1, FirstLF(buf) - 1)
SplitRest(buf) == SubSeq(buf, FirstLF(buf) + 1, Len(buf))

\* str.strip(): drop leading and trailing whitespace
RECURSIVE LStrip(_)
LStrip(s) == IF s # <<>> /\ Head(s).c \in Whitespace THEN LStrip(Tail(s)) ELSE s
RECURSIVE RStrip(_)
RStrip(s) == IF s # <<>> /\ s[Len(s)].c \in Whitespace
             THEN RStrip(SubSeq(s, 1, Len(s) - 1)) ELSE s
Strip(s) == RStrip(LStrip(s))

\* line.startswith('>')
StartsWithPrompt(line) == line # <<>> /\ line[1].c = PromptMarker

\* the outcome of a call: the method, the list or flag it returned, whether it raised
Ret(op, val, ok, exc) == [op |-> op, val |-> val, ok |-> ok, exc |-> exc]
RetNone == Ret("none", <<>>, TRUE, FALSE)

\* ------------------------------------------------------------------- Init
ConsoleInit ==
    /\ serial = "none"
    /\ running = FALSE
    /\ reader_thread = 0
    /\ rpc = [t \in Threads |-> "unborn"]
    /\ rbuf = [t \in Threads |-> <<>>]
    /\ response_queue = <<>>
    /\ rx = <<>>
    /\ tout = <<>>
    /\ wire = <<>>
    /\ cpc = "idle"
    /\ cmd = 0
    /\ responses = <<>>
    /\ expired = FALSE
    /\ ret = RetNone
    /\ nCmds = 0
    /\ errAt = -1
    /\ stale = {}
    /\ deq = <<>>

\* ------------------------------------------------- CDCConsole.connect
\* serial.Serial(...) succeeded: the port is stored, running is set and a new
\* reader thread is started (whatever threads were started before).
ConnectOk(maxThreads) ==
    /\ cpc = "idle"
    /\ reader_thread < maxThreads
    /\ serial' = "open"
    /\ running' = TRUE
    /\ reader_thread' = reader_thread + 1
    /\ rpc' = [rpc EXCEPT ![reader_thread + 1] = "loop"]
    /\ ret' = Ret("connect", <<>>, TRUE, FALSE)
    /\ UNCHANGED <<rbuf, response_queue, rx, tout, wire, cpc, cmd, responses, expired,
                   nCmds, errAt, stale, deq>>

\* serial.Serial(...) raised: caught, nothing assigned, returns False.
ConnectFail ==
    /\ cpc = "idle"
    /\ ret' = Ret("connect", <<>>, FALSE, FALSE)
    /\ UNCHANGED <<serial, running, reader_thread, rpc, rbuf, response_queue, rx, tout,
                   wire, cpc, cmd, responses, expired, nCmds, errAt, stale, deq>>


\* ---------------------------------------------- CDCConsole.disconnect
\* self.running = False; then join the last reader thread if there is one.
DisconnectBegin ==
    /\ cpc = "idle"
    /\ running' = FALSE
    /\ cpc' = IF reader_thread # 0 THEN "join" ELSE "close"
    /\ ret' = RetNone
    /\ UNCHANGED <<serial, reader_thread, rpc, rbuf, response_queue, rx, tout, wire,
                   cmd, responses, expired, nCmds, errAt, stale, deq>>

\* reader_thread.join(timeout=1.0) returns because the thread has ended ...
JoinDone ==
    /\ cpc = "join"
    /\ rpc[reader_thread] = "dead"
    /\ cpc' = "close"
    /\ UNCHANGED <<serial, running, reader_thread, rpc, rbuf, response_queue, rx, tout,
                   wire, cmd, responses, expired, ret, nCmds, errAt, stale, deq>>

\* ... or because the second has passed with the thread still alive.
JoinTimeout ==
    /\ cpc = "join"
    /\ rpc[reader_thread] # "dead"
    /\ cpc' = "close"
    /\ UNCHANGED <<serial, running, reader_thread, rpc, rbuf, response_queue, rx, tout,
                   wire, cmd, responses, expired, ret, nCmds, errAt, stale, deq>>

\* if self.serial: close it and set it to None; disconnect returns.
DisconnectClose ==
    /\ cpc = "close"
    /\ serial' = "none"
    /\ cpc' = "idle"
    /\ ret' = Ret("disconnect", <<>>, TRUE, FALSE)
    /\ UNCHANGED <<running, reader_thread, rpc, rbuf, response_queue, rx, tout, wire,
                   cmd, responses, expired, nCmds, errAt, stale, deq>>


\* -------------------------------------------- CDCConsole._reader_loop
\* while self.running:  -- the flag is clear, the thread ends
ReaderExit(t) ==
    /\ rpc[t] = "loop"
    /\ ~running
    /\ rpc' = [rpc EXCEPT ![t] = "dead"]
    /\ UNCHANGED <<serial, running, reader_thread, rbuf, response_queue, rx, tout, wire,
                   cpc, cmd, responses, expired, ret, nCmds, errAt, stale, deq>>

\* if self.serial and self.serial.in_waiting: data = read(in_waiting); buffer += data
\* else: time.sleep(0.01)
ReaderBody(t) ==
    /\ rpc[t] = "loop"
    /\ running
    /\ IF serial = "open" /\ rx # <<>>
       THEN /\ rbuf' = [rbuf EXCEPT ![t] = rbuf[t] \o rx]
            /\ rx' = <<>>
            /\ rpc' = [rpc EXCEPT ![t] = "split"]
       ELSE UNCHANGED <<rbuf, rx, rpc>>
    /\ UNCHANGED <<serial, running, reader_thread, response_queue, tout, wire,
                   cpc, cmd, responses, expired, ret, nCmds, errAt, stale, deq>>

\* Faulty variant of ReaderError: the exception is not caught inside the loop and
\* ends the thread.
ReaderError_Ends(t) ==
    /\ rpc[t] = "loop"
    /\ running
    /\ serial = "open"
    /\ errAt' = IF errAt = -1 THEN nCmds ELSE errAt
    /\ rpc' = [rpc EXCEPT ![t] = "dead"]
    /\ UNCHANGED <<serial, running, reader_thread, rbuf, response_queue, rx, tout, wire,
                   cpc, cmd, responses, expired, ret, nCmds, stale, deq>>

\* in_waiting or read raised: except Exception: (print if running); sleep(0.1);
\* nothing was read, the loop goes on.
ReaderError(t) ==
    /\ rpc[t] = "loop"
    /\ running
    /\ serial = "open"
    /\ errAt' = IF errAt = -1 THEN nCmds ELSE errAt
    /\ UNCHANGED <<serial, running, reader_thread, rpc, rbuf, response_queue, rx, tout, wire,
                   cpc, cmd, responses, expired, ret, nCmds, stale, deq>>

\* while '\n' in buffer: line, buffer = buffer.split('\n', 1); line = line.strip();
\* if line: self.response_queue.put(line)          (one iteration per step)
ReaderSplit(t) ==
    /\ rpc[t] = "split"
    /\ IF HasLF(rbuf[t])
       THEN /\ rbuf' = [rbuf EXCEPT ![t] = SplitRest(rbuf[t])]
            /\ response_queue' = IF Strip(SplitHead(rbuf[t])) # <<>>
                                 THEN Append(response_queue, Strip(SplitHead(rbuf[t])))
                                 ELSE response_queue
            /\ rpc' = rpc
       ELSE /\ rpc' = [rpc EXCEPT ![t] = "loop"]
            /\ UNCHANGED <<rbuf, response_queue>>
    /\ UNCHANGED <<serial, running, reader_thread, rx, tout, wire,
                   cpc, cmd, responses, expired, ret, nCmds, errAt, stale, deq>>

\* ----------------------------------------------------- CDCConsole.send
\* Faulty variant of SendCall: the `if not self.serial` guard is missing.
SendCall_NoOpenCheck(maxCmds) ==
    /\ cpc = "idle"
    /\ nCmds < maxCmds
    /\ nCmds' = nCmds + 1
    /\ cpc' = "drain"
    /\ cmd' = nCmds + 1
    /\ stale' = {response_queue[i] : i \in 1..Len(response_queue)}
    /\ deq' = <<>>
    /\ responses' = <<>>
    /\ expired' = FALSE
    /\ ret' = RetNone
    /\ UNCHANGED <<serial, running, reader_thread, rpc, rbuf, response_queue, rx, tout,
                   wire, errAt>>

\* if not self.serial: return []      else go on to clear the queue
SendCall(maxCmds) ==
    /\ cpc = "idle"
    /\ nCmds < maxCmds
    /\ nCmds' = nCmds + 1
    /\ IF serial = "none"
       THEN /\ ret' = Ret("send", <<>>, TRUE, FALSE)
            /\ UNCHANGED <<cpc, cmd, stale, deq, responses, expired>>
       ELSE /\ cpc' = "drain"
            /\ cmd' = nCmds + 1
            /\ stale' = {response_queue[i] : i \in 1..Len(response_queue)}
            /\ deq' = <<>>
            /\ responses' = <<>>
            /\ expired' = FALSE
            /\ ret' = RetNone
    /\ UNCHANGED <<serial, running, reader_thread, rpc, rbuf, response_queue, rx, tout,
                   wire, errAt>>

\* Faulty variant of SendDrain: the queue is not cleared before the write.
SendDrain_Skipped ==
    /\ cpc = "drain"
    /\ cpc' = "write"
    /\ UNCHANGED <<serial, running, reader_thread, rpc, rbuf, response_queue, rx, tout, wire,
                   cmd, responses, expired, ret, nCmds, errAt, stale, deq>>

\* while not self.response_queue.empty(): self.response_queue.get_nowait()
SendDrain ==
    /\ cpc = "drain"
    /\ IF response_queue # <<>>
       THEN /\ response_queue' = Tail(response_queue)
            /\ cpc' = cpc
       ELSE /\ cpc' = "write"
            /\ response_queue' = response_queue
    /\ UNCHANGED <<serial, running, reader_thread, rpc, rbuf, rx, tout, wire,
                   cmd, responses, expired, ret, nCmds, errAt, stale, deq>>

\* self.serial.write(f"{command}\r\n".encode()); self.serial.flush();
\* responses = []; deadline = time.time() + 2.0
SendWrite ==
    /\ cpc = "write"
    /\ wire' = Append(wire, cmd)
    /\ responses' = <<>>
    /\ expired' = FALSE
    /\ cpc' = "collect"
    /\ UNCHANGED <<serial, running, reader_thread, rpc, rbuf, response_queue, rx, tout,
                   cmd, ret, nCmds, errAt, stale, deq>>

\* write or flush raised (write_timeout=1.0, port gone): send has no handler,
\* the exception leaves send.
SendWriteRaises ==
    /\ cpc = "write"
    /\ cpc' = "idle"
    /\ ret' = Ret("send", <<>>, FALSE, TRUE)
    /\ UNCHANGED <<serial, running, reader_thread, rpc, rbuf, response_queue, rx, tout,
                   wire, cmd, responses, expired, nCmds, errAt, stale, deq>>

\* Faulty variant of SendLoop: the loop does not test the deadline.
SendLoop_NoDeadline ==
    /\ cpc = "collect"
    /\ cpc' = "get"
    /\ UNCHANGED <<serial, running, reader_thread, rpc, rbuf, response_queue, rx, tout,
                   wire, cmd, responses, expired, ret, nCmds, errAt, stale, deq>>

\* while time.time() < deadline:   ... return responses
SendLoop ==
    /\ cpc = "collect"
    /\ IF expired
       THEN /\ cpc' = "idle"
            /\ ret' = Ret("send", responses, TRUE, FALSE)
       ELSE /\ cpc' = "get"
            /\ ret' = ret
    /\ UNCHANGED <<serial, running, reader_thread, rpc, rbuf, response_queue, rx, tout,
                   wire, cmd, responses, expired, nCmds, errAt, stale, deq>>

\* Faulty variant of SendGetLine: the line is appended before the prompt test.
SendGetLine_KeepsPrompt ==
    /\ cpc = "get"
    /\ response_queue # <<>>
    /\ response_queue' = Tail(response_queue)
    /\ deq' = Append(deq, Head(response_queue))
    /\ responses' = Append(responses, Head(response_queue))
    /\ IF StartsWithPrompt(Head(response_queue))
       THEN /\ cpc' = "idle"
            /\ ret' = Ret("send", Append(responses, Head(response_queue)), TRUE, FALSE)
       ELSE /\ cpc' = "collect"
            /\ ret' = ret
    /\ UNCHANGED <<serial, running, reader_thread, rpc, rbuf, rx, tout, wire,
                   cmd, expired, nCmds, errAt, stale>>

\* line = self.response_queue.get(timeout=0.1)
\* if line.startswith('>'): break   else responses.append(line)
SendGetLine ==
    /\ cpc = "get"
    /\ response_queue # <<>>
    /\ response_queue' = Tail(response_queue)
    /\ deq' = Append(deq, Head(response_queue))
    /\ IF StartsWithPrompt(Head(response_queue))
       THEN /\ cpc' = "idle"
            /\ ret' = Ret("send", responses, TRUE, FALSE)
            /\ responses' = responses
       ELSE /\ cpc' = "collect"
            /\ responses' = Append(responses, Head(response_queue))
            /\ ret' = ret
    /\ UNCHANGED <<serial, running, reader_thread, rpc, rbuf, rx, tout, wire,
                   cmd, expired, nCmds, errAt, stale>>

\* except queue.Empty: continue      (0.1 s passed with the queue empty)
SendGetEmpty ==
    /\ cpc = "get"
    /\ response_queue = <<>>
    /\ cpc' = "collect"
    /\ UNCHANGED <<serial, running, reader_thread, rpc, rbuf, response_queue, rx, tout,
                   wire, cmd, responses, expired, ret, nCmds, errAt, stale, deq>>

\* time passes: time.time() reaches the deadline of the send in progress
DeadlinePasses ==
    /\ cpc \in {"collect", "get"}
    /\ ~expired
    /\ expired' = TRUE
    /\ UNCHANGED <<serial, running, reader_thread, rpc, rbuf, response_queue, rx, tout,
                   wire, cpc, cmd, responses, ret, nCmds, errAt, stale, deq>>

\* ------------------------------------------------------------ the target
\* The target takes the next command off the line and produces its answer,
\* which leaves it in two writes.
TargetReply(shapes) ==
    /\ wire # <<>>
    /\ tout = <<>>
    /\ \E shape \in shapes :
          tout' = [i \in 1..Len(shape) |-> Tag(shape[i], Head(wire))]
    /\ wire' = Tail(wire)
    /\ UNCHANGED <<serial, running, reader_thread, rpc, rbuf, response_queue, rx,
                   cpc, cmd, responses, expired, ret, nCmds, errAt, stale, deq>>

\* The next write of the answer arrives in the serial input buffer.
TargetDeliver ==
    /\ tout # <<>>
    /\ rx' = rx \o Head(tout)
    /\ tout' = Tail(tout)
    /\ UNCHANGED <<serial, running, reader_thread, rpc, rbuf, response_queue, wire,
                   cpc, cmd, responses, expired, ret, nCmds, errAt, stale, deq>>

\* =================================================== register helpers
\* Words are non-negative integers below 2^31 (the model checker's integer
\* range); every hexadecimal digit and every leading-zero case occurs in them.
Addrs == {1073741824, 1151860844}
Words == {0, 1, 48879, 180150000, 2147483647}

\* Optional[int]
NoneV == [some |-> FALSE, v |-> 0]
Some(n) == [some |-> TRUE, v |-> n]
\* Python truth value of an Optional[int]: None and 0 are false
Truthy(x) == x.some /\ x.v # 0

HexLower == <<"0", "1", "2", "3", "4", "5", "6", "7", "8", "9", "a", "b", "c", "d", "e", "f">>
HexUpper == <<"0", "1", "2", "3", "4", "5", "6", "7", "8", "9", "A", "B", "C", "D", "E", "F">>

\* format(n, 'x') / format(n, 'X') for n >= 0
RECURSIVE HexStr(_, _)
HexStr(n, digits) == IF n < 16 THEN <<digits[n + 1]>>
                     ELSE Append(HexStr(n \div 16, digits), digits[(n % 16) + 1])
RECURSIVE ZeroPad(_, _)
ZeroPad(str, width) == IF Len(str) >= width THEN str ELSE ZeroPad(<<"0">> \o str, width)
\* f"{n:08x}" and f"{n:08X}"
Fmt08x(n) == ZeroPad(HexStr(n, HexLower), 8)
Fmt08X(n) == ZeroPad(HexStr(n, HexUpper), 8)

\* int(str, 16): the value of a non-empty string of hexadecimal digits of
\* either case, None (ValueError) for anything else
HexChars == {HexLower[i] : i \in 1..16} \cup {HexUpper[i] : i \in 1..16}
DigitTable == [ch \in HexChars |->
                 (CHOOSE i \in 1..16 : HexLower[i] = ch \/ HexUpper[i] = ch) - 1]
IsHexDigit(ch) == ch \in HexChars
DigitVal(ch) == DigitTable[ch]
RECURSIVE HexVal(_)
HexVal(str) == IF str = <<>> THEN 0
               ELSE HexVal(SubSeq(str, 1, Len(str) - 1)) * 16 + DigitVal(str[Len(str)])
IntBase16(str) == IF str # <<>> /\ \A i \in 1..Len(str) : IsHexDigit(str[i])
                  THEN Some(HexVal(str)) ELSE NoneV

\* The reader's line splitting applied to a whole answer: the stripped,
\* non-empty lines of the stream, in order.
RECURSIVE LinesOf(_)
LinesOf(buf) ==
    IF HasLF(buf)
    THEN LET line == Strip(SplitHead(buf))
         IN (IF line # <<>> THEN <<line>> ELSE <<>>) \o LinesOf(SplitRest(buf))
    ELSE <<>>

\* send's collection over lines that all arrive before the deadline: the lines
\* before the first one that starts with the prompt marker.
RECURSIVE CollectUntilPrompt(_)
CollectUntilPrompt(lines) ==
    IF lines = <<>> \/ StartsWithPrompt(Head(lines)) THEN <<>>
    ELSE <<Head(lines)>> \o CollectUntilPrompt(Tail(lines))

\* command(): '\n'.join(self.send(cmd)), as characters
RECURSIVE JoinLF(_)
JoinLF(lines) == IF lines = <<>> THEN <<>>
                 ELSE IF Len(lines) = 1 THEN Chars(lines[1])
                 ELSE Chars(Head(lines)) \o <<LF>> \o JoinLF(Tail(lines))
command(stream) == JoinLF(CollectUntilPrompt(LinesOf(Tag(stream, 0))))

\* str.startswith / `in` / split(":")[1] / strip on plain character strings
StartsWith(str, pre) == Len(str) >= Len(pre) /\ SubSeq(str, 1, Len(pre)) = pre
Contains(str, sub) ==
    \E i \in 1..(Len(str) - Len(sub) + 1) : SubSeq(str, i, i + Len(sub) - 1) = sub
ColonAt(str) == {i \in 1..Len(str) : str[i] = ":"}
Min(S) == CHOOSE x \in S : \A y \in S : x <= y
\* str.split(":")[1], for a string that holds a colon
SplitColon1(str) ==
    LET first == Min(ColonAt(str))
        later == {i \in ColonAt(str) : i > first}
    IN SubSeq(str, first + 1, IF later = {} THEN Len(str) ELSE Min(later) - 1)
StripChars(str) == Chars(Strip(Tag(str, 0)))

\* Faulty variant of ParseRead: the value is parsed as decimal digits.
ParseRead_Decimal(response) ==
    IF StartsWith(response, <<"O", "K", ":">>)
    THEN LET digits == StripChars(SplitColon1(response))
         IN IF digits # <<>> /\ \A i \in 1..Len(digits) : \E d \in 1..10 : HexLower[d] = digits[i]
            THEN Some(HexVal(digits)) ELSE NoneV
    ELSE NoneV

\* read_memory: if response.startswith("OK:"): try: return int(response.split(":")[1].strip(), 16)
\*              except: pass;   return None
ParseRead(response) ==
    IF StartsWith(response, <<"O", "K", ":">>)
    THEN IntBase16(StripChars(SplitColon1(response)))
    ELSE NoneV

\* write_memory: return "OK" in response
ParseWrite(response) == Contains(response, <<"O", "K">>)

\* f"dbg r {addr:08x}" and f"dbg w {addr:08x} {data:08x}", as words
ReadCmd(addr) == <<<<"d", "b", "g">>, <<"r">>, Fmt08x(addr)>>
WriteCmd(addr, data) == <<<<"d", "b", "g">>, <<"w">>, Fmt08x(addr), Fmt08x(data)>>

\* ---- the target's debug console (register protocol)
PromptLine == <<">", " ", "\r", LF>>
Faults == {"none", "silent", "err", "badhex", "chatty"}
\* a command's address and data words, parsed as the target parses them
IsWrite(m, c) ==
    Len(c) = 4 /\ c[2] = <<"w">> /\ IntBase16(c[3]).some /\ IntBase16(c[4]).some
        /\ IntBase16(c[3]).v \in DOMAIN m
IsRead(m, c) ==
    Len(c) = 3 /\ c[2] = <<"r">> /\ IntBase16(c[3]).some /\ IntBase16(c[3]).v \in DOMAIN m
\* the memory after the target has executed a command
TargetMem(m, c) ==
    IF IsWrite(m, c) THEN [m EXCEPT ![IntBase16(c[3]).v] = IntBase16(c[4]).v] ELSE m
\* what a target that works answers: "OK" to a write, "OK:<8 hex digits>" (in
\* either case) to a read, "ERR" to anything else, each followed by a prompt line
TargetAnswer(m, c, upper) ==
    (IF IsWrite(m, c) THEN <<"O", "K", "\r", LF>>
     ELSE IF IsRead(m, c)
     THEN LET word == m[IntBase16(c[3]).v]
          IN <<"O", "K", ":">> \o (IF upper THEN Fmt08X(word) ELSE Fmt08x(word)) \o <<"\r", LF>>
     ELSE <<"E", "R", "R", "\r", LF>>) \o PromptLine
\* what reaches the console, by the state of the link
Stream(m, c, upper, fault) ==
    CASE fault = "none" -> TargetAnswer(m, c, upper)
      [] fault = "silent" -> <<>>
      [] fault = "err" -> <<"E", "R", "R", LF>> \o PromptLine
      [] fault = "badhex" -> <<"O", "K", ":", "z", "z", LF>> \o PromptLine
      [] fault = "chatty" -> <<"O", "K", ":", "0", "0", LF, "i", "r", "q", LF>> \o PromptLine

RegNone == [op |-> "none", addr |-> 0, fault |-> "none", response |-> <<>>,
            val |-> NoneV, ok |-> FALSE, after |-> NoneV]

RegsInit ==
    /\ mem = [a \in Addrs |-> 0]
    /\ reg = RegNone
    /\ lastw = [addr |-> 0, data |-> NoneV]
    /\ shown = <<>>

\* CDCConsole.write_memory(addr, data)
write_memory(addr, data, fault) ==
    LET response == command(Stream(mem, WriteCmd(addr, data), FALSE, fault))
    IN /\ mem' = IF fault = "none" THEN TargetMem(mem, WriteCmd(addr, data)) ELSE mem
       /\ reg' = [op |-> "write", addr |-> addr, fault |-> fault, response |-> response,
                  val |-> NoneV, ok |-> ParseWrite(response), after |-> NoneV]
       /\ lastw' = [addr |-> addr, data |-> IF fault = "none" THEN Some(data) ELSE NoneV]
       /\ shown' = <<>>

\* what a read of addr asks, gets and returns
ReadCall(op, addr, upper, fault) ==
    LET response == command(Stream(mem, ReadCmd(addr), upper, fault))
    IN [op |-> op, addr |-> addr, fault |-> fault, response |-> response,
        val |-> ParseRead(response), ok |-> TRUE,
        after |-> IF lastw.addr = addr THEN lastw.data ELSE NoneV]

\* CDCConsole.read_memory(addr)
read_memory(addr, upper, fault) ==
    /\ reg' = ReadCall("read", addr, upper, fault)
    /\ lastw' = [addr |-> 0, data |-> NoneV]
    /\ shown' = <<>>
    /\ UNCHANGED mem

\* DevLoop.interactive, command "r <addr>":
\*   value = self.console.read_memory(addr)
\*   print(f"{addr:08X}: {value:08X}" if value else "Failed")
Failed == <<"F", "a", "i", "l", "e", "d">>
interactive_r(addr, upper, fault) ==
    LET call == ReadCall("show", addr, upper, fault)
    IN /\ reg' = call
       /\ shown' = IF Truthy(call.val)
                   THEN Fmt08X(addr) \o <<":", " ">> \o Fmt08X(call.val.v)
                   ELSE Failed
       /\ lastw' = [addr |-> 0, data |-> NoneV]
       /\ UNCHANGED mem

\* ========================================================== write_block
\* Bytes are drawn from a zero byte and a non-zero byte; words stay below 2^31.
Bytes == {0, 127}
BlockBase == 1073741824
BlockData == UNION {[1..n -> Bytes] : n \in 0..MaxBlockLen}
\* the addresses a block of at most MaxBlockLen bytes at BlockBase covers
BlockAddrs == {BlockBase + 4 * k : k \in 0..(MaxBlockLen \div 4)}

\* while len(chunk) < 4: chunk += b'\x00'
RECURSIVE PadChunk(_)
PadChunk(chunk) == IF Len(chunk) < 4 THEN PadChunk(chunk \o <<0>>) ELSE chunk

\* int.from_bytes(chunk, 'big'): the first byte is the most significant
RECURSIVE FromBytesBig(_)
FromBytesBig(chunk) ==
    IF chunk = <<>> THEN 0 ELSE chunk[Len(chunk)] + 256 * FromBytesBig(SubSeq(chunk, 1, Len(chunk) - 1))

\* int.from_bytes(chunk, 'little'): the first byte is the least significant
RECURSIVE FromBytesLittle(_)
FromBytesLittle(chunk) ==
    IF chunk = <<>> THEN 0 ELSE Head(chunk) + 256 * FromBytesLittle(Tail(chunk))

\* Faulty variant of BlockWords: the chunks are read most significant byte first.
RECURSIVE BlockWords_BigEndian(_)
BlockWords_BigEndian(data) ==
    IF data = <<>> THEN <<>>
    ELSE LET n == IF Len(data) < 4 THEN Len(data) ELSE 4
         IN <<FromBytesBig(PadChunk(SubSeq(data, 1, n)))>>
               \o BlockWords_BigEndian(SubSeq(data, n + 1, Len(data)))

\* for i in range(0, len(data), 4): words.append(int.from_bytes(padded data[i:i+4], 'little'))
RECURSIVE BlockWords(_)
BlockWords(data) ==
    IF data = <<>> THEN <<>>
    ELSE LET n == IF Len(data) < 4 THEN Len(data) ELSE 4
         IN <<FromBytesLittle(PadChunk(SubSeq(data, 1, n)))>>
               \o BlockWords(SubSeq(data, n + 1, Len(data)))

\* write_memory(addr, word) as write_block sees it: the value it returns
WriteMemoryOk(m, addr, word, fault) ==
    ParseWrite(command(Stream(m, WriteCmd(addr, word), FALSE, fault)))

BlockInit ==
    /\ wb = [pc |-> "idle", addr |-> 0, data |-> <<>>, words |-> <<>>, i |-> 0,
             ret |-> FALSE, failedAt |-> -1]
    /\ bmem = [a \in BlockAddrs |-> 0]
    /\ issued = <<>>

\* write_block(addr, data): the call and the conversion of the bytes to words
WriteBlockCall(addr, data) ==
    /\ wb.pc \in {"idle", "done"}
    /\ wb' = [pc |-> "loop", addr |-> addr, data |-> data, words |-> BlockWords(data),
              i |-> 0, ret |-> FALSE, failedAt |-> -1]
    /\ issued' = <<>>
    /\ UNCHANGED bmem

\* Faulty variant of WriteBlockWord: a failed word write does not end the loop.
WriteBlockWord_Continues(fault) ==
    /\ wb.pc = "loop"
    /\ wb.i < Len(wb.words)
    /\ LET a == wb.addr + wb.i * 4
           word == wb.words[wb.i + 1]
           ok == WriteMemoryOk(bmem, a, word, fault)
       IN /\ issued' = Append(issued, <<Fmt08x(a), Fmt08x(word)>>)
          /\ bmem' = IF fault = "none" THEN TargetMem(bmem, WriteCmd(a, word)) ELSE bmem
          /\ wb' = [wb EXCEPT !.i = wb.i + 1,
                              !.failedAt = IF ~ok /\ wb.failedAt = -1 THEN wb.i ELSE wb.failedAt]

\* one turn of `for i, word in enumerate(words)`: the write of word i, and the
\* return of False when it fails
WriteBlockWord(fault) ==
    /\ wb.pc = "loop"
    /\ wb.i < Len(wb.words)
    /\ LET a == wb.addr + wb.i * 4
           word == wb.words[wb.i + 1]
           ok == WriteMemoryOk(bmem, a, word, fault)
       IN /\ issued' = Append(issued, <<Fmt08x(a), Fmt08x(word)>>)
          /\ bmem' = IF fault = "none" THEN TargetMem(bmem, WriteCmd(a, word)) ELSE bmem
          /\ wb' = IF ok THEN [wb EXCEPT !.i = wb.i + 1]
                   ELSE [wb EXCEPT !.pc = "done", !.ret = FALSE, !.failedAt = wb.i]

\* the loop has gone through every word: return True
WriteBlockReturn ==
    /\ wb.pc = "loop"
    /\ wb.i = Len(wb.words)
    /\ wb' = [wb EXCEPT !.pc = "done", !.ret = TRUE]
    /\ UNCHANGED <<bmem, issued>>

\* ========================================================== test runner
\* A test case: TestCase(name, description, layer_required, test_fn, timeout).
\* The test function is the environment's: each invocation returns a
\* TestResult or raises.
TestCase(name, layer, timeout) == [name |-> name, layer_required |-> layer, timeout |-> timeout]
Names == {"a", "b", "c"}
\* the suites registered: required layers 2, 5, 5 with short timeouts; and a
\* suite with a timeout at the quick threshold and one above it
SuiteLayers == <<TestCase("a", 2, 1), TestCase("b", 5, 2), TestCase("c", 5, 1)>>
SuiteTimeouts == <<TestCase("a", 5, 5), TestCase("b", 2, 1), TestCase("c", 5, 10)>>
Suites == {SuiteLayers, SuiteTimeouts}
SuitePrefixes == {SubSeq(suite, 1, n) : suite \in Suites, n \in 0..3}
\* what one invocation of a test function does
FnOutcomes == {"PASS", "FAIL", "SKIP", "ERROR", "raise"}
\* the layer register as read_memory(0x44A80074) returns it
LayerWords == {NoneV, Some(3), Some(21)}
QuickThreshold == 5

\* CDCConsole.get_layer(): value & 0xF if value is not None else -1
get_layer(value) == IF value.some THEN value.v % 16 ELSE -1

NoResults == [n \in Names |-> "none"]
RunIdle == [pc |-> "idle", kind |-> "none", via |-> "none", idx |-> 0, layer |-> -1,
            min_layer |-> 0, list |-> <<>>, ret |-> FALSE, exc |-> FALSE]
Event(test, ev, outcome, layer) ==
    [name |-> test.name, layer_required |-> test.layer_required, timeout |-> test.timeout,
     ev |-> ev, outcome |-> outcome, layer |-> layer]

TestsInit ==
    /\ test_runner = FALSE
    /\ tests = <<>>
    /\ results = NoResults
    /\ layerReg \in LayerWords
    /\ run = RunIdle
    /\ log = <<>>

RunOver == run.pc \in {"idle", "done"}

\* DevLoop.connect: a new TestRunner (the registrations follow)
NewTestRunner ==
    /\ RunOver
    /\ test_runner' = TRUE
    /\ tests' = <<>>
    /\ results' = NoResults
    /\ run' = RunIdle
    /\ log' = <<>>
    /\ UNCHANGED layerReg

\* TestRunner.register(test)
register(test) ==
    /\ test_runner /\ RunOver
    /\ Append(tests, test) \in SuitePrefixes
    /\ tests' = Append(tests, test)
    /\ run' = RunIdle
    /\ log' = <<>>
    /\ UNCHANGED <<test_runner, results, layerReg>>

\* the target's bring-up layer changes, or its register stops or starts answering
TargetLayerChanges(word) ==
    /\ word # layerReg
    /\ layerReg' = word
    /\ UNCHANGED <<test_runner, tests, results, run, log>>

\* DevLoop.run_tests without a test runner: "Not connected", return False
RunTestsNotConnected(quick) ==
    /\ ~test_runner /\ RunOver
    /\ run' = [RunIdle EXCEPT !.pc = "done", !.via = "run_tests", !.ret = FALSE]
    /\ log' = <<>>
    /\ UNCHANGED <<test_runner, tests, results, layerReg>>

\* run_all(min_layer), called directly or by DevLoop.run_tests(quick=False):
\* current_layer = self.console.get_layer()
RunAllCall(via, min_layer) ==
    /\ test_runner /\ RunOver
    /\ run' = [RunIdle EXCEPT !.pc = "all", !.kind = "all", !.via = via, !.idx = 1,
                              !.layer = get_layer(layerReg), !.min_layer = min_layer]
    /\ log' = <<>>
    /\ UNCHANGED <<test_runner, tests, results, layerReg>>

\* Faulty variant of RunAllStep: the layer gate is missing.
RunAllStep_NoGate(outcome) ==
    /\ run.pc = "all" /\ run.idx <= Len(tests)
    /\ LET test == tests[run.idx]
       IN IF test.layer_required < run.min_layer
          THEN /\ log' = Append(log, Event(test, "filtered", "none", run.layer))
               /\ UNCHANGED results
          ELSE /\ results' = [results EXCEPT ![test.name] =
                                 IF outcome = "raise" THEN "ERROR" ELSE outcome]
               /\ log' = Append(log, Event(test, IF outcome = "raise" THEN "raise" ELSE "ret",
                                           outcome, run.layer))
    /\ run' = [run EXCEPT !.idx = run.idx + 1]
    /\ UNCHANGED <<test_runner, tests, layerReg>>

\* Faulty variant of RunAllStep: a test at exactly the current layer is skipped.
RunAllStep_SkipAtEqual(outcome) ==
    /\ run.pc = "all" /\ run.idx <= Len(tests)
    /\ LET test == tests[run.idx]
       IN IF test.layer_required >= run.layer
          THEN /\ results' = [results EXCEPT ![test.name] = "SKIP"]
               /\ log' = Append(log, Event(test, "skip", "SKIP", run.layer))
          ELSE IF test.layer_required < run.min_layer
          THEN /\ log' = Append(log, Event(test, "filtered", "none", run.layer))
               /\ UNCHANGED results
          ELSE /\ results' = [results EXCEPT ![test.name] =
                                 IF outcome = "raise" THEN "ERROR" ELSE outcome]
               /\ log' = Append(log, Event(test, IF outcome = "raise" THEN "raise" ELSE "ret",
                                           outcome, run.layer))
    /\ run' = [run EXCEPT !.idx = run.idx + 1]
    /\ UNCHANGED <<test_runner, tests, layerReg>>

\* Faulty variant of RunAllStep: a test function that raises ends the run.
RunAllStep_RaiseAborts(outcome) ==
    /\ run.pc = "all" /\ run.idx <= Len(tests)
    /\ LET test == tests[run.idx]
       IN IF test.layer_required > run.layer
          THEN /\ results' = [results EXCEPT ![test.name] = "SKIP"]
               /\ log' = Append(log, Event(test, "skip", "SKIP", run.layer))
               /\ run' = [run EXCEPT !.idx = run.idx + 1]
          ELSE IF test.layer_required < run.min_layer
          THEN /\ log' = Append(log, Event(test, "filtered", "none", run.layer))
               /\ run' = [run EXCEPT !.idx = run.idx + 1]
               /\ UNCHANGED results
          ELSE /\ results' = [results EXCEPT ![test.name] =
                                 IF outcome = "raise" THEN "ERROR" ELSE outcome]
               /\ log' = Append(log, Event(test, IF outcome = "raise" THEN "raise" ELSE "ret",
                                           outcome, run.layer))
               /\ run' = IF outcome = "raise" THEN [run EXCEPT !.pc = "done", !.ret = FALSE]
                         ELSE [run EXCEPT !.idx = run.idx + 1]
    /\ UNCHANGED <<test_runner, tests, layerReg>>

\* Faulty variant of RunAllStep: the gate reads the layer afresh for each test.
RunAllStep_FreshLayer(outcome) ==
    /\ run.pc = "all" /\ run.idx <= Len(tests)
    /\ LET test == tests[run.idx]
           layer == get_layer(layerReg)
       IN IF test.layer_required > layer
          THEN /\ results' = [results EXCEPT ![test.name] = "SKIP"]
               /\ log' = Append(log, Event(test, "skip", "SKIP", layer))
          ELSE IF test.layer_required < run.min_layer
          THEN /\ log' = Append(log, Event(test, "filtered", "none", layer))
               /\ UNCHANGED results
          ELSE /\ results' = [results EXCEPT ![test.name] =
                                 IF outcome = "raise" THEN "ERROR" ELSE outcome]
               /\ log' = Append(log, Event(test, IF outcome = "raise" THEN "raise" ELSE "ret",
                                           outcome, layer))
    /\ run' = [run EXCEPT !.idx = run.idx + 1]
    /\ UNCHANGED <<test_runner, tests, layerReg>>

\* one turn of `for test in self.tests` in run_all: the layer gate, the
\* min_layer filter, or the invocation of the test function and the recording
\* of what it returned or of ERROR when it raised
RunAllStep(outcome) ==
    /\ run.pc = "all" /\ run.idx <= Len(tests)
    /\ LET test == tests[run.idx]
       IN IF test.layer_required > run.layer
          THEN /\ results' = [results EXCEPT ![test.name] = "SKIP"]
               /\ log' = Append(log, Event(test, "skip", "SKIP", run.layer))
          ELSE IF test.layer_required < run.min_layer
          THEN /\ log' = Append(log, Event(test, "filtered", "none", run.layer))
               /\ UNCHANGED results
          ELSE /\ results' = [results EXCEPT ![test.name] =
                                 IF outcome = "raise" THEN "ERROR" ELSE outcome]
               /\ log' = Append(log, Event(test, IF outcome = "raise" THEN "raise" ELSE "ret",
                                           outcome, run.layer))
    /\ run' = [run EXCEPT !.idx = run.idx + 1]
    /\ UNCHANGED <<test_runner, tests, layerReg>>

\* results.values(), as the set of outcomes recorded
ResultValues == {results[n] : n \in {m \in Names : results[m] # "none"}}

\* Faulty variant of RunAllReturn: run_tests counts SKIP as a failure.
RunAllReturn_SkipFails ==
    /\ run.pc = "all" /\ run.idx > Len(tests)
    /\ run' = [run EXCEPT !.pc = "done",
                          !.ret = IF run.via = "run_tests"
                                  THEN \A r \in ResultValues : r = "PASS"
                                  ELSE TRUE]
    /\ UNCHANGED <<test_runner, tests, results, layerReg, log>>

\* run_all returns self.results; DevLoop.run_tests returns
\* all(r in (PASS, SKIP) for r in results.values())
RunAllReturn ==
    /\ run.pc = "all" /\ run.idx > Len(tests)
    /\ run' = [run EXCEPT !.pc = "done",
                          !.ret = IF run.via = "run_tests"
                                  THEN \A r \in ResultValues : r \in {"PASS", "SKIP"}
                                  ELSE TRUE]
    /\ UNCHANGED <<test_runner, tests, results, layerReg, log>>

\* quick_tests = [t for t in self.tests if t.timeout < 5.0]
IsQuick(test) == test.timeout < QuickThreshold
\* run_quick(), called directly or by DevLoop.run_tests(quick=True)
RunQuickCall(via) ==
    /\ test_runner /\ RunOver
    /\ run' = [RunIdle EXCEPT !.pc = "quick", !.kind = "quick", !.via = via, !.idx = 1,
                              !.list = SelectSeq(tests, IsQuick)]
    /\ log' = <<>>
    /\ UNCHANGED <<test_runner, tests, results, layerReg>>

\* Faulty variant of RunQuickStep: a result that is not PASS does not end the run.
RunQuickStep_KeepsGoing(outcome) ==
    /\ run.pc = "quick" /\ run.idx <= Len(run.list)
    /\ LET test == run.list[run.idx]
           layer == get_layer(layerReg)
       IN IF test.layer_required > layer
          THEN log' = Append(log, Event(test, "skip", "none", layer))
          ELSE log' = Append(log, Event(test, IF outcome = "raise" THEN "raise" ELSE "ret",
                                        outcome, layer))
    /\ run' = [run EXCEPT !.idx = run.idx + 1]
    /\ UNCHANGED <<test_runner, tests, results, layerReg>>

\* one turn of `for test in quick_tests` in run_quick: the layer gate on a
\* fresh get_layer(), or the invocation and the return of False when the
\* function raises or returns anything but PASS
RunQuickStep(outcome) ==
    /\ run.pc = "quick" /\ run.idx <= Len(run.list)
    /\ LET test == run.list[run.idx]
           layer == get_layer(layerReg)
       IN IF test.layer_required > layer
          THEN /\ log' = Append(log, Event(test, "skip", "none", layer))
               /\ run' = [run EXCEPT !.idx = run.idx + 1]
          ELSE /\ log' = Append(log, Event(test, IF outcome = "raise" THEN "raise" ELSE "ret",
                                           outcome, layer))
               /\ run' = IF outcome = "PASS" THEN [run EXCEPT !.idx = run.idx + 1]
                         ELSE [run EXCEPT !.pc = "done", !.ret = FALSE]
    /\ UNCHANGED <<test_runner, tests, results, layerReg>>

\* the loop of run_quick has gone through every quick test: return True
RunQuickReturn ==
    /\ run.pc = "quick" /\ run.idx > Len(run.list)
    /\ run' = [run EXCEPT !.pc = "done", !.ret = TRUE]
    /\ UNCHANGED <<test_runner, tests, results, layerReg, log>>

\* ========================================================== RTL builder
Workers == 1..MaxBuilds
\* the threads that may call start_build
BuildCallers == {1, 2}
\* how the run of the toolchain ends: exit code 0, a non-zero exit code,
\* subprocess.TimeoutExpired, any other exception
ToolOutcomes == {"exit0", "nonzero", "timeout", "exception"}
\* get_source_hash(): one hash per version of the sources
get_source_hash(version) == Some(version + 1)
\* RTLBuilder.needs_rebuild(): current_hash != self.last_hash
rtl_needs_rebuild == get_source_hash(sources) # last_hash
\* Thread.is_alive(): started and not yet returned
WorkerAlive(w) == wpc[w] \in {"start", "run", "hash", "status", "signal"}
\* Faulty variant of is_building: the status enum is consulted.
is_building_FromStatus == build_status = "running"
\* is_building(): self.build_thread and self.build_thread.is_alive()
is_building == build_thread # 0 /\ WorkerAlive(build_thread)

BuildInit ==
    /\ build_thread = 0
    /\ build_status = "idle"
    /\ last_hash = NoneV
    /\ bitstream_ready = FALSE
    /\ wpc = [w \in Workers |-> "unborn"]
    /\ spc = [c \in BuildCallers |-> "idle"]
    /\ sources = 0
    /\ built = [w \in Workers |-> -1]
    /\ ended = [w \in Workers |-> "none"]
    /\ busy = FALSE
    /\ raced = FALSE
    /\ waiter = "idle"

\* a tracked RTL source file is modified
SourceEdited ==
    /\ sources < MaxEdits
    /\ sources' = sources + 1
    /\ UNCHANGED <<build_thread, build_status, last_hash, bitstream_ready, wpc, spc, built, ended, busy,
                   raced, waiter>>

\* Faulty variant of StartBuildCheck: the test for a live worker is missing.
StartBuildCheck_NoAliveTest(c) ==
    /\ spc[c] = "idle"
    /\ \E w \in Workers : wpc[w] = "unborn"
    /\ spc' = [spc EXCEPT ![c] = "clear"]
    /\ busy' = FALSE
    /\ raced' = (raced \/ \E d \in BuildCallers : d # c /\ spc[d] # "idle")
    /\ UNCHANGED <<build_thread, build_status, last_hash, bitstream_ready, wpc, sources, built, ended, waiter>>

\* start_build: `if self.build_thread and self.build_thread.is_alive(): return`
StartBuildCheck(c) ==
    /\ spc[c] = "idle"
    /\ IF build_thread # 0 /\ WorkerAlive(build_thread)
       THEN /\ busy' = TRUE
            /\ UNCHANGED <<spc, raced>>
       ELSE /\ \E w \in Workers : wpc[w] = "unborn"
            /\ busy' = FALSE
            /\ spc' = [spc EXCEPT ![c] = "clear"]
            /\ raced' = (raced \/ \E d \in BuildCallers : d # c /\ spc[d] # "idle")
    /\ UNCHANGED <<build_thread, build_status, last_hash, bitstream_ready, wpc, sources, built, ended, waiter>>

\* Faulty variant of StartBuildClear: start_build leaves the signal as it is.
StartBuildClear_KeepsSignal(c) ==
    /\ spc[c] = "clear"
    /\ spc' = [spc EXCEPT ![c] = "spawn"]
    /\ UNCHANGED <<build_thread, build_status, last_hash, bitstream_ready, wpc, sources, built, ended,
                   busy, raced, waiter>>

\* start_build: self.bitstream_ready.clear()
StartBuildClear(c) ==
    /\ spc[c] = "clear"
    /\ bitstream_ready' = FALSE
    /\ spc' = [spc EXCEPT ![c] = "spawn"]
    /\ UNCHANGED <<build_thread, build_status, last_hash, wpc, sources, built, ended, busy, raced, waiter>>

\* start_build: self.build_thread = threading.Thread(...); self.build_thread.start()
StartBuildSpawn(c) ==
    /\ spc[c] = "spawn"
    /\ \E w \in Workers :
          /\ wpc[w] = "unborn"
          /\ \A v \in Workers : v < w => wpc[v] # "unborn"
          /\ build_thread' = w
          /\ wpc' = [wpc EXCEPT ![w] = "start"]
    /\ spc' = [spc EXCEPT ![c] = "idle"]
    /\ UNCHANGED <<build_status, last_hash, bitstream_ready, sources, built, ended, busy, raced, waiter>>

\* Faulty variant of WorkerStart: the worker does not set the status to running.
WorkerStart_KeepsStatus(w) ==
    /\ wpc[w] = "start"
    /\ wpc' = [wpc EXCEPT ![w] = "run"]
    /\ UNCHANGED <<build_thread, build_status, last_hash, bitstream_ready, spc, sources, built, ended,
                   busy, raced, waiter>>

\* _build_worker: self.build_status = "running", then the toolchain is started
WorkerStart(w) ==
    /\ wpc[w] = "start"
    /\ build_status' = "running"
    /\ wpc' = [wpc EXCEPT ![w] = "run"]
    /\ UNCHANGED <<build_thread, last_hash, bitstream_ready, spc, sources, built, ended, busy, raced, waiter>>

\* _build_worker: the toolchain started by subprocess.run reads the RTL sources,
\* at some moment of its run
ToolReads(w) ==
    /\ wpc[w] = "run"
    /\ built[w] = -1
    /\ built' = [built EXCEPT ![w] = sources]
    /\ UNCHANGED <<build_thread, build_status, last_hash, bitstream_ready, wpc, spc, sources, ended,
                   busy, raced, waiter>>

\* Faulty variant of ToolExit: a failed build publishes the completion signal.
ToolExit_FailureSignals(w, how) ==
    /\ wpc[w] = "run"
    /\ how = "exit0" => built[w] # -1
    /\ ended' = [ended EXCEPT ![w] = how]
    /\ IF how = "exit0"
       THEN /\ wpc' = [wpc EXCEPT ![w] = "hash"]
            /\ UNCHANGED <<build_status, bitstream_ready>>
       ELSE /\ wpc' = [wpc EXCEPT ![w] = "dead"]
            /\ build_status' = "failed"
            /\ bitstream_ready' = TRUE
    /\ built' = IF how = "exit0" THEN built ELSE [built EXCEPT ![w] = -1]
    /\ UNCHANGED <<build_thread, last_hash, spc, sources, busy, raced, waiter>>

\* _build_worker: subprocess.run returns or raises; the status of an
\* unsuccessful run
ToolExit(w, how) ==
    /\ wpc[w] = "run"
    /\ how = "exit0" => built[w] # -1
    /\ ended' = [ended EXCEPT ![w] = how]
    /\ IF how = "exit0"
       THEN /\ wpc' = [wpc EXCEPT ![w] = "hash"]
            /\ UNCHANGED build_status
       ELSE /\ wpc' = [wpc EXCEPT ![w] = "dead"]
            /\ build_status' = CASE how = "nonzero" -> "failed"
                                 [] how = "timeout" -> "timeout"
                                 [] how = "exception" -> "error"
    /\ built' = IF how = "exit0" THEN built ELSE [built EXCEPT ![w] = -1]
    /\ UNCHANGED <<build_thread, last_hash, bitstream_ready, spc, sources, busy, raced, waiter>>

\* _build_worker, returncode 0: self.last_hash = self.get_source_hash()
WorkerHash(w) ==
    /\ wpc[w] = "hash"
    /\ last_hash' = get_source_hash(sources)
    /\ wpc' = [wpc EXCEPT ![w] = "status"]
    /\ UNCHANGED <<build_thread, build_status, bitstream_ready, spc, sources, built, ended, busy, raced, waiter>>

\* _build_worker, returncode 0: get_source_hash() raises (a source file cannot
\* be read); `except Exception` sets the status to the error
WorkerHashRaises(w) ==
    /\ wpc[w] = "hash"
    /\ ended' = [ended EXCEPT ![w] = "exception"]
    /\ build_status' = "error"
    /\ wpc' = [wpc EXCEPT ![w] = "dead"]
    /\ built' = [built EXCEPT ![w] = -1]
    /\ UNCHANGED <<build_thread, last_hash, bitstream_ready, spc, sources, busy, raced, waiter>>

\* _build_worker, returncode 0: self.build_status = "success"
WorkerSuccess(w) ==
    /\ wpc[w] = "status"
    /\ build_status' = "success"
    /\ wpc' = [wpc EXCEPT ![w] = "signal"]
    /\ UNCHANGED <<build_thread, last_hash, bitstream_ready, spc, sources, built, ended, busy, raced, waiter>>

\* _build_worker, returncode 0: self.bitstream_ready.set(), and the worker returns
WorkerSignal(w) ==
    /\ wpc[w] = "signal"
    /\ bitstream_ready' = TRUE
    /\ wpc' = [wpc EXCEPT ![w] = "dead"]
    /\ built' = [built EXCEPT ![w] = -1]
    /\ UNCHANGED <<build_thread, build_status, last_hash, spc, sources, ended, busy, raced, waiter>>

\* wait_for_build(): self.bitstream_ready.wait(timeout=None), called after a
\* start_build; the caller blocks unless the Event is already set
WaitForBuildCall ==
    /\ waiter \in {"idle", "released"}
    /\ build_thread # 0
    /\ waiter' = IF bitstream_ready THEN "released" ELSE "waiting"
    /\ UNCHANGED <<build_thread, build_status, last_hash, bitstream_ready, wpc, spc, sources, built,
                   ended, busy, raced>>

\* the Event is set: the blocked wait returns True
WaitForBuildReturn ==
    /\ waiter = "waiting"
    /\ bitstream_ready
    /\ waiter' = "released"
    /\ UNCHANGED <<build_thread, build_status, last_hash, bitstream_ready, wpc, spc, sources, built,
                   ended, busy, raced>>

\* ================================================= RTL change detection
\* (tools/devloop/rtl_tools.py)
\* The tracked files that can exist under the RTL directory: two files with
\* the same stem in different subdirectories, a third Verilog file, and a
\* SystemVerilog file with the stem of the third.
FileInfo == <<[path |-> "a/m.v", stem |-> "m", ext |-> "v"],
              [path |-> "b/m.v", stem |-> "m", ext |-> "v"],
              [path |-> "n.v", stem |-> "n", ext |-> "v"],
              [path |-> "n.sv", stem |-> "n", ext |-> "sv"]>>
Files == DOMAIN FileInfo
ModNames == {FileInfo[f].stem : f \in Files}
FilesOfExt(ext) == {f \in Files : FileInfo[f].ext = ext}
\* the orders a directory walk can produce, as far as the scan depends on
\* them: which of the two files with the same stem is visited first
Orders == [v : {<<1, 2, 3>>, <<2, 1, 3>>}, sv : {<<4>>}]
\* the contents a file can have
Contents == {1, 2}

\* get_module_hash(path): sha256 of the content, 16 hex digits; one hash per content
get_module_hash(content) == <<"sha", content>>
\* no entry for a name in a dict
NoEntry == <<>>

\* one loop of scan_rtl_modules: modules[name] = RTLModule(...) for each file visited
RECURSIVE ScanLoop(_, _, _)
ScanLoop(modules, visit, files) ==
    IF visit = <<>> THEN modules
    ELSE LET f == Head(visit)
         IN ScanLoop(IF files[f] = 0 THEN modules
                     ELSE [modules EXCEPT ![FileInfo[f].stem] = get_module_hash(files[f])],
                     Tail(visit), files)

\* scan_rtl_modules(rtl_dir): name -> hash of the module (NoEntry when no file has the name)
scan_rtl_modules(files, ord) ==
    ScanLoop(ScanLoop([n \in ModNames |-> NoEntry], ord.v, files), ord.sv, files)

\* the keys of the scanned dict in insertion order
RECURSIVE KeyOrder(_, _, _)
KeyOrder(seen, visit, files) ==
    IF visit = <<>> THEN seen
    ELSE LET f == Head(visit)
             name == FileInfo[f].stem
         IN KeyOrder(IF files[f] = 0 \/ \E i \in 1..Len(seen) : seen[i] = name THEN seen
                     ELSE Append(seen, name),
                     Tail(visit), files)
ModuleKeys(files, ord) == KeyOrder(KeyOrder(<<>>, ord.v, files), ord.sv, files)

\* json.loads(cache_file.read_text()) if cache_file.exists() else {}
prev_hashes(c) == IF c.exists THEN c.hashes ELSE [n \in ModNames |-> NoEntry]

\* Faulty variant of get_changed_modules: a name the cache holds and the scan
\* no longer finds is reported as changed too.
RECURSIVE get_changed_modules_ReportsDeleted(_, _, _)
get_changed_modules_ReportsDeleted(keys, modules, c) ==
    IF keys = <<>>
    THEN (IF prev_hashes(c)["m"] # NoEntry /\ modules["m"] = NoEntry THEN <<"m">> ELSE <<>>)
            \o (IF prev_hashes(c)["n"] # NoEntry /\ modules["n"] = NoEntry THEN <<"n">> ELSE <<>>)
    ELSE (IF prev_hashes(c)[Head(keys)] = NoEntry \/ prev_hashes(c)[Head(keys)] # modules[Head(keys)]
          THEN <<Head(keys)>> ELSE <<>>)
            \o get_changed_modules_ReportsDeleted(Tail(keys), modules, c)

\* Faulty variant of get_changed_modules: a name absent from the cache is not reported.
RECURSIVE get_changed_modules_IgnoresNew(_, _, _)
get_changed_modules_IgnoresNew(keys, modules, c) ==
    IF keys = <<>> THEN <<>>
    ELSE (IF prev_hashes(c)[Head(keys)] # NoEntry /\ prev_hashes(c)[Head(keys)] # modules[Head(keys)]
          THEN <<Head(keys)>> ELSE <<>>)
            \o get_changed_modules_IgnoresNew(Tail(keys), modules, c)

\* get_changed_modules(modules, cache_file): the names, in dict order, that
\* are not in the cache or whose cached hash differs
RECURSIVE get_changed_modules(_, _, _)
get_changed_modules(keys, modules, c) ==
    IF keys = <<>> THEN <<>>
    ELSE (IF prev_hashes(c)[Head(keys)] = NoEntry \/ prev_hashes(c)[Head(keys)] # modules[Head(keys)]
          THEN <<Head(keys)>> ELSE <<>>)
            \o get_changed_modules(Tail(keys), modules, c)

\* get_changed_modules(scan_rtl_modules(dir), cache_file) on a directory and a cache
ChangedList(files, ord, c) ==
    get_changed_modules(ModuleKeys(files, ord), scan_rtl_modules(files, ord), c)

\* save_module_cache(modules, cache_file)
save_module_cache(modules) == [exists |-> TRUE, hashes |-> modules]

\* quick_check(module) can only pass when rglob finds <module>.v
HasVerilogFile(files, name) ==
    \E f \in FilesOfExt("v") : FileInfo[f].stem = name /\ files[f] # 0

Op(op, file, result, changed) ==
    [op |-> op, file |-> file, ret |-> result, changed |-> changed, built |-> FALSE]

CacheInit ==
    /\ fs = [f \in Files |-> 0]
    /\ order = [v |-> <<1, 2, 3>>, sv |-> <<4>>]
    /\ cache = [exists |-> FALSE, hashes |-> [n \in ModNames |-> NoEntry]]
    /\ last = Op("none", 0, FALSE, <<>>)

\* a tracked file is created; the directory walk may visit the files in a new order
AddFile(f, content, ord) ==
    /\ fs[f] = 0
    /\ fs' = [fs EXCEPT ![f] = content]
    /\ order' = ord
    /\ last' = Op("add", f, FALSE, <<>>)
    /\ UNCHANGED cache

\* a tracked file is modified in place
ModifyFile(f, content) ==
    /\ fs[f] # 0 /\ content # fs[f]
    /\ fs' = [fs EXCEPT ![f] = content]
    /\ last' = Op("modify", f, FALSE, <<>>)
    /\ UNCHANGED <<order, cache>>

\* a tracked file is deleted
DeleteFile(f) ==
    /\ fs[f] # 0
    /\ fs' = [fs EXCEPT ![f] = 0]
    /\ last' = Op("delete", f, FALSE, <<>>)
    /\ UNCHANGED <<order, cache>>

\* RTLWorkflow.status(): scan and get_changed_modules, nothing written
WorkflowStatus ==
    /\ last' = Op("status", 0, TRUE, ChangedList(fs, order, cache))
    /\ UNCHANGED <<fs, order, cache>>

\* Faulty variant of smart_build: the cache is saved whatever the build returned.
smart_build_SavesAlways(sims, build) ==
    LET modules == scan_rtl_modules(fs, order)
        changed == get_changed_modules(ModuleKeys(fs, order), modules, cache)
        simsPass == \A i \in 1..Len(changed) : HasVerilogFile(fs, changed[i]) /\ sims
        success == simsPass /\ build
    IN /\ last' = [Op("build", 0, changed = <<>> \/ success, changed)
                        EXCEPT !.built = changed # <<>> /\ simsPass]
       /\ cache' = IF changed = <<>> THEN cache ELSE save_module_cache(modules)
       /\ UNCHANGED <<fs, order>>

\* RTLWorkflow.smart_build(): scan, compare with the cache; nothing changed:
\* return True; a failed quick_check: return False; else build, and save the
\* cache when the build succeeded
smart_build(sims, build) ==
    LET modules == scan_rtl_modules(fs, order)
        changed == get_changed_modules(ModuleKeys(fs, order), modules, cache)
        simsPass == \A i \in 1..Len(changed) : HasVerilogFile(fs, changed[i]) /\ sims
        success == simsPass /\ build
    IN /\ last' = [Op("build", 0, changed = <<>> \/ success, changed)
                        EXCEPT !.built = changed # <<>> /\ simsPass]
       /\ cache' = IF changed # <<>> /\ success THEN save_module_cache(modules) ELSE cache
       /\ UNCHANGED <<fs, order>>

\* ====================================================== firmware deploy
\* get_binary(): None when build/firmware.bin is absent, its bytes otherwise
NoBinary == [exists |-> FALSE, bytes |-> <<>>]
Binaries == {NoBinary} \cup {[exists |-> TRUE, bytes |-> d] : d \in BlockData}
\* fw_base = 0x40000000
fw_base == BlockBase
\* how the link behaves during one console command: the target answers, stays
\* silent, answers ERR, or the write to the port raises
LinkFaults == {"none", "silent", "err", "raise"}
\* what reaches the console after "dbg cpu halt|reset|run"
CpuStream(fault) ==
    CASE fault = "none" -> <<"O", "K", "\r", LF>> \o PromptLine
      [] fault = "silent" -> <<>>
      [] fault = "err" -> <<"E", "R", "R", LF>> \o PromptLine
      [] OTHER -> <<>>
\* cpu_halt / cpu_reset / cpu_run: return "OK" in self.command(...)
cpu_ok(fault) == Contains(command(CpuStream(fault)), <<"O", "K">>)

\* a console command of deploy and whether its helper returned True
Sent(c, ok) == [c |-> c, ok |-> ok]
DepIdle == [pc |-> "idle", ret |-> "none"]
DepEnd(d, how) == [d EXCEPT !.pc = "done", !.ret = how]

DeployInit ==
    /\ binary = NoBinary
    /\ dep = DepIdle
    /\ sent = <<>>
    /\ cpu = "running"

\* deploy: binary = self.get_binary(); if not binary: return False
DeployCall(b) ==
    /\ dep.pc \in {"idle", "done"}
    /\ wb.pc \in {"idle", "done"}
    /\ binary' = b
    /\ sent' = <<>>
    /\ dep' = IF b.exists /\ b.bytes # <<>> THEN [DepIdle EXCEPT !.pc = "halt"]
              ELSE DepEnd(DepIdle, "False")
    /\ UNCHANGED <<cpu, bvars>>

\* one cpu command of deploy: `if not console.cpu_<verb>(): return False`
CpuStep(at, verb, state, next, fault) ==
    /\ dep.pc = at
    /\ sent' = Append(sent, Sent(<<verb>>, fault # "raise" /\ cpu_ok(fault)))
    /\ cpu' = IF fault = "none" THEN state ELSE cpu
    /\ dep' = IF fault = "raise" THEN DepEnd(dep, "raise")
              ELSE IF ~cpu_ok(fault) THEN DepEnd(dep, "False")
              ELSE IF next = "done" THEN DepEnd(dep, "True")
              ELSE [dep EXCEPT !.pc = next]
    /\ UNCHANGED <<binary, bvars>>

\* Faulty variant of DeployHalt: the result of cpu_halt() is not tested.
DeployHalt_Unchecked(fault) ==
    /\ dep.pc = "halt"
    /\ sent' = Append(sent, Sent(<<"halt">>, fault # "raise" /\ cpu_ok(fault)))
    /\ cpu' = IF fault = "none" THEN "halted" ELSE cpu
    /\ dep' = IF fault = "raise" THEN DepEnd(dep, "raise") ELSE [dep EXCEPT !.pc = "write"]
    /\ UNCHANGED <<binary, bvars>>

\* if not console.cpu_halt(): return False
DeployHalt(fault) == CpuStep("halt", "halt", "halted", "write", fault)

\* console.write_block(fw_base, binary): the call
DeployWriteCall ==
    /\ dep.pc = "write"
    /\ WriteBlockCall(fw_base, binary.bytes)
    /\ dep' = [dep EXCEPT !.pc = "writing"]
    /\ UNCHANGED <<binary, sent, cpu>>

\* one word of the block write; `if not console.write_block(...): return False`
\* when it fails
DeployWriteWord(fault) ==
    /\ dep.pc = "writing"
    /\ WriteBlockWord(fault)
    /\ sent' = Append(sent, Sent(<<"w">> \o issued'[Len(issued')], wb'.pc # "done"))
    /\ dep' = IF wb'.pc = "done" THEN DepEnd(dep, "False") ELSE dep
    /\ UNCHANGED <<binary, cpu>>

\* the write of a word raises in send: nothing on the way handles it
DeployWriteRaises ==
    /\ dep.pc = "writing"
    /\ wb.pc = "loop" /\ wb.i < Len(wb.words)
    /\ LET a == wb.addr + wb.i * 4
           word == wb.words[wb.i + 1]
       IN /\ issued' = Append(issued, <<Fmt08x(a), Fmt08x(word)>>)
          /\ sent' = Append(sent, Sent(<<"w", Fmt08x(a), Fmt08x(word)>>, FALSE))
    /\ wb' = [wb EXCEPT !.pc = "done", !.failedAt = wb.i]
    /\ dep' = DepEnd(dep, "raise")
    /\ UNCHANGED <<binary, cpu, bmem>>

\* write_block returned True
DeployWriteReturn ==
    /\ dep.pc = "writing"
    /\ WriteBlockReturn
    /\ dep' = [dep EXCEPT !.pc = "reset"]
    /\ UNCHANGED <<binary, sent, cpu>>

\* if not console.cpu_reset(): return False
DeployReset(fault) == CpuStep("reset", "reset", "reset", "run", fault)

\* time.sleep(0.1); if not console.cpu_run(): return False; return True
DeployRun(fault) == CpuStep("run", "run", "running", "done", fault)

\* ================================================== dev loop controller
\* FirmwareBuilder.get_source_hash(): one hash per version of the sources
fw_source_hash(version) == Some(version + 1)
\* create_standard_tests(), which DevLoop.connect registers: quick tests gated
\* on several layers
StandardTests == SuiteLayers
\* ALL_TESTS of tests/test_hardware.py, which the standalone runner registers
ALL_TESTS == SuiteTimeouts
\* build/firmware.bin after a firmware build: absent, or a binary of one word
BuiltBinaries == {NoBinary, [exists |-> TRUE, bytes |-> <<127>>]}
\* the operator commands of main, and the standalone hardware test runner
Commands == {"status", "reload", "test", "watch", "hwtest"}
\* --layer of the standalone runner
MinLayers == {0, 5}

RelIdle == [pc |-> "idle", via |-> "none", ret |-> "none", exc |-> "none"]
RelEnd(r, how, exc) == [r EXCEPT !.pc = "done", !.ret = how, !.exc = exc]
StIdle == [pc |-> "idle", ret |-> "none"]
WatchOff == [pc |-> "off", last_fw_hash |-> NoneV, last_rtl_hash |-> NoneV,
             current_fw_hash |-> NoneV, exc |-> "none", notes |-> 0]
ProcNone == [command |-> "none", pc |-> "none", exit |-> -1]

DevLoopInit ==
    /\ console = FALSE
    /\ fwsrc = 0
    /\ fw_last_hash = NoneV
    /\ rel = RelIdle
    /\ st = StIdle
    /\ watch = WatchOff
    /\ proc = ProcNone

\* a tracked firmware source file is modified
FwEdited ==
    /\ fwsrc < MaxFwEdits
    /\ fwsrc' = fwsrc + 1
    /\ UNCHANGED <<console, fw_last_hash, rel, st, watch, proc>>
    /\ UNCHANGED <<bvars, tvars, dvars, fvars>>

\* ------------------------------------------------------- DevLoop.status
\* status(): get_layer() and get_status() talk to the console, nothing handles
\* an exception of theirs; the method returns None
DevLoopStatus(fault) ==
    /\ st.pc = "idle"
    /\ st' = [pc |-> "done",
              ret |-> IF console /\ fault = "raise" THEN "raise" ELSE "None"]
    /\ UNCHANGED <<console, fwsrc, fw_last_hash, rel, watch>>
    /\ UNCHANGED <<bvars, tvars, dvars, fvars>>

\* ---------------------------------------------------- DevLoop.fw_reload
\* fw_reload(): `if not self.console: return False`, else go on to the build
ReloadCall(via) ==
    /\ rel.pc \in {"idle", "done"}
    /\ rel' = IF console THEN [RelIdle EXCEPT !.pc = "build", !.via = via]
              ELSE RelEnd([RelIdle EXCEPT !.via = via], "False", "none")

\* FirmwareBuilder.needs_rebuild(): current_hash != self.last_hash
fw_needs_rebuild == fw_source_hash(fwsrc) # fw_last_hash

\* Faulty variant of FirmwareBuilder.build: last_hash is set whatever the exit code.
ReloadBuild_HashOnFailure(how) ==
    /\ rel.pc = "build"
    /\ fw_last_hash' = IF how \in {"exit0", "nonzero"} THEN fw_source_hash(fwsrc) ELSE fw_last_hash
    /\ rel' = CASE how = "exit0" -> [rel EXCEPT !.pc = "deploy"]
                [] how = "nonzero" -> RelEnd(rel, "False", "none")
                [] how = "timeout" -> RelEnd(rel, "raise", "TimeoutExpired")
                [] OTHER -> RelEnd(rel, "raise", "build")
    /\ UNCHANGED <<console, fwsrc, st, watch, proc>>
    /\ UNCHANGED <<bvars, tvars, dvars, fvars>>

\* FirmwareBuilder.build(): subprocess.run(["make", "-j4"], ..., timeout=...)
\* returns with exit code 0 (last_hash is set, True), returns with another exit
\* code (False), or raises TimeoutExpired or another exception, which neither
\* build nor fw_reload handles
ReloadBuild(how) ==
    /\ rel.pc = "build"
    /\ fw_last_hash' = IF how = "exit0" THEN fw_source_hash(fwsrc) ELSE fw_last_hash
    /\ rel' = CASE how = "exit0" -> [rel EXCEPT !.pc = "deploy"]
                [] how = "nonzero" -> RelEnd(rel, "False", "none")
                [] how = "timeout" -> RelEnd(rel, "raise", "TimeoutExpired")
                [] OTHER -> RelEnd(rel, "raise", "build")
    /\ UNCHANGED <<console, fwsrc, st, watch, proc>>
    /\ UNCHANGED <<bvars, tvars, dvars, fvars>>

\* if not self.fw_builder.deploy(self.console): the call
ReloadDeployCall(b) ==
    /\ rel.pc = "deploy"
    /\ DeployCall(b)
    /\ rel' = [rel EXCEPT !.pc = "deploying"]
    /\ UNCHANGED <<console, fwsrc, fw_last_hash, st, watch, proc>>
    /\ UNCHANGED <<tvars, dvars>>

\* the steps of deploy inside fw_reload
ReloadDeployStep(cpuFaults, wordFaults) ==
    /\ rel.pc = "deploying"
    /\ \/ \E fault \in cpuFaults : DeployHalt(fault) \/ DeployReset(fault) \/ DeployRun(fault)
       \/ DeployWriteCall
       \/ \E fault \in wordFaults : DeployWriteWord(fault)
       \/ DeployWriteRaises
       \/ DeployWriteReturn
    /\ UNCHANGED lvars
    /\ UNCHANGED <<tvars, dvars>>

\* deploy returned False: return False.  It raised: the exception goes on.
\* It returned True: time.sleep(0.5); layer = self.console.get_layer();
\* return True
ReloadDeployReturn(fault) ==
    /\ rel.pc = "deploying"
    /\ dep.pc = "done"
    /\ rel' = CASE dep.ret = "False" -> RelEnd(rel, "False", "none")
                [] dep.ret = "raise" -> RelEnd(rel, "raise", "transport")
                [] OTHER -> IF fault = "raise" THEN RelEnd(rel, "raise", "transport")
                            ELSE RelEnd(rel, "True", "none")
    /\ UNCHANGED <<console, fwsrc, fw_last_hash, st, watch, proc>>
    /\ UNCHANGED <<bvars, tvars, dvars, fvars>>

\* ---------------------------------------------------- DevLoop.run_tests
\* run_all: current_layer = self.console.get_layer() raises (the write to the
\* port fails); the call is outside run_all's try
RunAllCallRaises(via) ==
    /\ test_runner /\ RunOver
    /\ run' = [RunIdle EXCEPT !.pc = "done", !.kind = "all", !.via = via, !.exc = TRUE]
    /\ log' = <<>>
    /\ UNCHANGED <<test_runner, tests, results, layerReg>>

\* run_quick: self.console.get_layer() in the gate of a test raises; the call
\* is outside run_quick's try
RunQuickLayerRaises ==
    /\ run.pc = "quick" /\ run.idx <= Len(run.list)
    /\ run' = [run EXCEPT !.pc = "done", !.exc = TRUE]
    /\ UNCHANGED <<test_runner, tests, results, layerReg, log>>

\* the steps of the run in progress
RunSteps ==
    \/ \E outcome \in FnOutcomes : RunAllStep(outcome) \/ RunQuickStep(outcome)
    \/ RunAllReturn
    \/ RunQuickReturn
    \/ RunQuickLayerRaises

\* ---------------------------------------------- DevLoop.watch_and_reload
InLoop == watch.pc \in {"fw", "rtl", "ready", "clear", "sleep"}

\* self.running = True; last_fw_hash = ...; last_rtl_hash = ...
WatchStart ==
    /\ watch.pc = "off"
    /\ watch' = [WatchOff EXCEPT !.pc = "fw",
                                 !.last_fw_hash = fw_source_hash(fwsrc),
                                 !.last_rtl_hash = get_source_hash(sources)]

\* current_fw_hash = ...; if current_fw_hash != last_fw_hash: self.fw_reload()
WatchFw ==
    /\ watch.pc = "fw"
    /\ LET current == fw_source_hash(fwsrc)
       IN IF current # watch.last_fw_hash
          THEN /\ ReloadCall("watch")
               /\ watch' = [watch EXCEPT !.pc = "reload", !.current_fw_hash = current]
          ELSE /\ watch' = [watch EXCEPT !.pc = "rtl"]
               /\ UNCHANGED rel
    /\ UNCHANGED <<console, fwsrc, fw_last_hash, st, proc>>
    /\ UNCHANGED <<bvars, tvars, dvars, fvars>>

\* fw_reload is back.  True: self.run_tests(quick=True).  False:
\* last_fw_hash = current_fw_hash, on to the RTL check.  An exception: only
\* KeyboardInterrupt is caught, the loop and the method end with it.
WatchAfterReload ==
    /\ watch.pc = "reload"
    /\ rel.pc = "done" /\ rel.via = "watch"
    /\ CASE rel.ret = "raise" ->
              /\ watch' = [watch EXCEPT !.pc = "aborted", !.exc = rel.exc]
              /\ UNCHANGED tvars
         [] rel.ret = "True" ->
              /\ RunQuickCall("run_tests")
              /\ watch' = [watch EXCEPT !.pc = "quick"]
         [] OTHER ->
              /\ watch' = [watch EXCEPT !.pc = "rtl", !.last_fw_hash = watch.current_fw_hash]
              /\ UNCHANGED tvars
    /\ UNCHANGED <<console, fwsrc, fw_last_hash, rel, st, proc>>
    /\ UNCHANGED <<bvars, dvars, fvars>>

\* the quick run is back: "Quick tests passed" or "Quick tests FAILED", then
\* last_fw_hash = current_fw_hash; an exception of get_layer ends the loop
WatchAfterQuick ==
    /\ watch.pc = "quick"
    /\ run.pc = "done"
    /\ watch' = IF run.exc THEN [watch EXCEPT !.pc = "aborted", !.exc = "transport"]
                ELSE [watch EXCEPT !.pc = "rtl", !.last_fw_hash = watch.current_fw_hash]
    /\ UNCHANGED <<console, fwsrc, fw_last_hash, rel, st, proc>>
    /\ UNCHANGED <<bvars, tvars, dvars, fvars>>

\* current_rtl_hash = ...; if it differs: `if not self.rtl_builder.is_building()`
\* go on to start_build; last_rtl_hash = current_rtl_hash
WatchRtl ==
    /\ watch.pc = "rtl"
    /\ LET current == get_source_hash(sources)
       IN watch' = IF current # watch.last_rtl_hash
                   THEN [watch EXCEPT !.pc = IF is_building THEN "ready" ELSE "start",
                                      !.last_rtl_hash = current]
                   ELSE [watch EXCEPT !.pc = "ready"]
    /\ UNCHANGED <<console, fwsrc, fw_last_hash, rel, st, proc>>
    /\ UNCHANGED <<bvars, tvars, dvars, fvars>>

\* self.rtl_builder.start_build(): its liveness test
WatchStartBuild ==
    /\ watch.pc = "start"
    /\ StartBuildCheck(1)
    /\ watch' = [watch EXCEPT !.pc = IF spc'[1] = "idle" THEN "ready" ELSE "starting"]
    /\ UNCHANGED <<console, fwsrc, fw_last_hash, rel, st, proc>>
    /\ UNCHANGED <<bvars, tvars, fvars>>

\* start_build: the clearing of the signal, the creation of the worker
WatchStartStep ==
    /\ watch.pc = "starting"
    /\ StartBuildClear(1) \/ StartBuildSpawn(1)
    /\ watch' = [watch EXCEPT !.pc = IF spc'[1] = "idle" THEN "ready" ELSE "starting"]
    /\ UNCHANGED <<console, fwsrc, fw_last_hash, rel, st, proc>>
    /\ UNCHANGED <<bvars, tvars, fvars>>

\* if self.rtl_builder.bitstream_ready.is_set(): print("New bitstream ready! ...")
WatchReady ==
    /\ watch.pc = "ready"
    /\ watch' = IF bitstream_ready
                THEN [watch EXCEPT !.pc = "clear", !.notes = watch.notes + 1]
                ELSE [watch EXCEPT !.pc = "sleep"]
    /\ UNCHANGED <<console, fwsrc, fw_last_hash, rel, st, proc>>
    /\ UNCHANGED <<bvars, tvars, dvars, fvars>>

\* self.rtl_builder.bitstream_ready.clear()
WatchClear ==
    /\ watch.pc = "clear"
    /\ bitstream_ready' = FALSE
    /\ watch' = [watch EXCEPT !.pc = "sleep"]
    /\ UNCHANGED <<build_thread, build_status, last_hash, wpc, spc, sources, built, ended, busy,
                   raced, waiter>>
    /\ UNCHANGED <<console, fwsrc, fw_last_hash, rel, st, proc>>
    /\ UNCHANGED <<bvars, tvars, fvars>>

\* time.sleep(1.0), then the next turn of `while self.running`
WatchSleep ==
    /\ watch.pc = "sleep"
    /\ watch' = [watch EXCEPT !.pc = "fw"]
    /\ UNCHANGED <<console, fwsrc, fw_last_hash, rel, st, proc>>
    /\ UNCHANGED <<bvars, tvars, dvars, fvars>>

\* except KeyboardInterrupt: "Stopped watching", self.running = False (the
\* operator's Ctrl+C, taken between the calls of the loop)
WatchInterrupt ==
    /\ InLoop
    /\ watch' = [watch EXCEPT !.pc = "stopped"]
    /\ UNCHANGED <<console, fwsrc, fw_last_hash, rel, st, proc>>
    /\ UNCHANGED <<bvars, tvars, dvars, fvars>>

\* ----------------------------------------------------------------- main
\* dev.connect() (DevLoop.connect: a console, a test runner, the standard
\* tests), or the standalone runner's console.connect(), TestRunner and
\* register_all_tests; sys.exit(1) when the connection fails
MainConnect(what, ok) ==
    /\ proc.pc = "none"
    /\ console' = TRUE
    /\ IF ok
       THEN /\ proc' = [ProcNone EXCEPT !.command = what, !.pc = "connected"]
            /\ test_runner' = TRUE
            /\ tests' = IF what = "hwtest" THEN ALL_TESTS ELSE StandardTests
            /\ results' = NoResults
            /\ run' = RunIdle
            /\ log' = <<>>
            /\ UNCHANGED layerReg
       ELSE /\ proc' = [ProcNone EXCEPT !.command = what, !.pc = "exited", !.exit = 1]
            /\ UNCHANGED tvars
    /\ UNCHANGED <<fwsrc, fw_last_hash, rel, st, watch>>
    /\ UNCHANGED <<bvars, dvars, fvars>>

\* the call of the method the command maps to: dev.status(), dev.fw_reload(),
\* dev.run_tests(), dev.watch_and_reload(), runner.run_all(min_layer=args.layer)
MainDispatch ==
    /\ proc.pc = "connected"
    /\ proc' = [proc EXCEPT !.pc = "method"]
    /\ CASE proc.command = "status" ->
              /\ \E fault \in LinkFaults : DevLoopStatus(fault)
         [] proc.command = "reload" ->
              /\ ReloadCall("main")
              /\ UNCHANGED <<console, fwsrc, fw_last_hash, st, watch>>
              /\ UNCHANGED <<bvars, tvars, dvars, fvars>>
         [] proc.command = "test" ->
              /\ RunAllCall("run_tests", 0) \/ RunAllCallRaises("run_tests")
              /\ UNCHANGED <<console, fwsrc, fw_last_hash, rel, st, watch>>
              /\ UNCHANGED <<bvars, dvars, fvars>>
         [] proc.command = "watch" ->
              /\ WatchStart
              /\ UNCHANGED <<console, fwsrc, fw_last_hash, rel, st>>
              /\ UNCHANGED <<bvars, tvars, dvars, fvars>>
         [] OTHER ->
              /\ \/ \E min_layer \in MinLayers : RunAllCall("hwtest", min_layer)
                 \/ RunAllCallRaises("hwtest")
              /\ UNCHANGED <<console, fwsrc, fw_last_hash, rel, st, watch>>
              /\ UNCHANGED <<bvars, dvars, fvars>>

\* the method main called is over
MethodOver ==
    CASE proc.command = "status" -> st.pc = "done"
      [] proc.command = "reload" -> rel.pc = "done"
      [] proc.command = "watch" -> watch.pc \in {"stopped", "aborted"}
      [] OTHER -> run.pc = "done"
\* it ended with an exception
MethodRaised ==
    CASE proc.command = "status" -> st.ret = "raise"
      [] proc.command = "reload" -> rel.ret = "raise"
      [] proc.command = "watch" -> watch.pc = "aborted"
      [] OTHER -> run.exc

\* the exit code: an exception that leaves main gives 1; "test" calls
\* sys.exit(0 if success else 1); the standalone runner counts the FAIL results,
\* sys.exit(0 if failed == 0 else 1); status, reload and watch drop what the
\* method returned and main returns
ExitCode ==
    IF MethodRaised THEN 1
    ELSE CASE proc.command = "test" -> IF run.ret THEN 0 ELSE 1
           [] proc.command = "hwtest" ->
                IF Cardinality({n \in Names : results[n] = "FAIL"}) = 0 THEN 0 ELSE 1
           [] OTHER -> 0

\* finally: dev.disconnect() (console.disconnect()), and the process ends
MainExit ==
    /\ proc.pc = "method"
    /\ MethodOver
    /\ proc' = [proc EXCEPT !.pc = "exited", !.exit = ExitCode]
    /\ console' = FALSE
    /\ UNCHANGED <<fwsrc, fw_last_hash, rel, st, watch>>
    /\ UNCHANGED <<bvars, tvars, dvars, fvars>>

\* ---------------------------------------------------------- specifications
Collect == SendDrain \/ SendWrite \/ SendWriteRaises \/ SendLoop
              \/ SendGetLine \/ SendGetEmpty \/ DeadlinePasses

Init ==
    ConsoleInit /\ RegsInit /\ BlockInit /\ TestsInit /\ BuildInit /\ CacheInit /\ DeployInit
        /\ DevLoopInit

\* The send protocol on one connection.
SendProtocol ==
    \/ ConnectOk(1)
    \/ SendCall(SendCmds)
    \/ Collect
    \/ \E t \in Threads : ReaderBody(t) \/ ReaderSplit(t)
    \/ TargetReply(ReplyShapes) \/ TargetDeliver

Next == SendProtocol /\ UNCHANGED exceptConsole

Spec == Init /\ [][Next]_vars

\* The life cycle: any sequence of connect, disconnect and send calls.
LifeCycle ==
    \/ ConnectOk(LifeThreads) \/ ConnectFail
    \/ DisconnectBegin \/ JoinDone \/ JoinTimeout \/ DisconnectClose
    \/ SendCall(LifeCmds)
    \/ Collect
    \/ \E t \in Threads : ReaderExit(t) \/ ReaderBody(t) \/ ReaderError(t) \/ ReaderSplit(t)
    \/ TargetReply({ReplyOneWrite}) \/ TargetDeliver

NextLife == LifeCycle /\ UNCHANGED exceptConsole

SpecLife == Init /\ [][NextLife]_vars

\* The register helpers, called in any order with any address and word, over a
\* link that works or fails per call.
Registers ==
    \/ \E addr \in Addrs, data \in Words, fault \in {"none", "silent", "err"} :
          write_memory(addr, data, fault)
    \/ \E addr \in Addrs, upper \in BOOLEAN, fault \in Faults :
          read_memory(addr, upper, fault)
    \/ \E addr \in Addrs, upper \in BOOLEAN, fault \in Faults :
          interactive_r(addr, upper, fault)

NextRegs == Registers /\ UNCHANGED exceptRegs

SpecRegs == Init /\ [][NextRegs]_vars

\* write_block, called with any byte sequence, over a link that works or fails
\* per word write.
BlockWrites ==
    \/ \E data \in BlockData : WriteBlockCall(BlockBase, data)
    \/ \E fault \in {"none", "silent", "err"} : WriteBlockWord(fault)
    \/ WriteBlockReturn

NextBlock == BlockWrites /\ UNCHANGED exceptBlock

SpecBlock == Init /\ [][NextBlock]_vars

\* The test runner: suites registered test by test, full and quick runs in any
\* order, a target whose layer changes at any moment.
TestRuns ==
    \/ NewTestRunner
    \/ \E name \in Names, layer \in {2, 5}, timeout \in {1, 2, 5, 10} :
          register(TestCase(name, layer, timeout))
    \/ \E word \in LayerWords : TargetLayerChanges(word)
    \/ \E quick \in BOOLEAN : RunTestsNotConnected(quick)
    \/ \E via \in {"direct", "run_tests"}, min_layer \in {0, 3} :
          (via = "run_tests" => min_layer = 0) /\ RunAllCall(via, min_layer)
    \/ \E outcome \in FnOutcomes : RunAllStep(outcome)
    \/ RunAllReturn
    \/ \E via \in {"direct", "run_tests"} : RunQuickCall(via)
    \/ \E outcome \in FnOutcomes : RunQuickStep(outcome)
    \/ RunQuickReturn

NextTests == TestRuns /\ UNCHANGED exceptTests

SpecTests == Init /\ [][NextTests]_vars

\* The RTL builder: its worker threads, the sources, and the threads in callers
\* that call start_build.
Building(callers) ==
    \/ SourceEdited
    \/ \E c \in callers : StartBuildCheck(c) \/ StartBuildClear(c) \/ StartBuildSpawn(c)
    \/ \E w \in Workers :
          \/ WorkerStart(w) \/ ToolReads(w)
          \/ \E how \in ToolOutcomes : ToolExit(w, how)
          \/ WorkerHash(w) \/ WorkerHashRaises(w) \/ WorkerSuccess(w) \/ WorkerSignal(w)
    \/ WaitForBuildCall \/ WaitForBuildReturn

\* start_build calls serialized by one caller
NextBuild == Building({1}) /\ UNCHANGED exceptBuild

SpecBuild == Init /\ [][NextBuild]_vars

\* start_build called by concurrent callers
NextBuildRace == Building(BuildCallers) /\ UNCHANGED exceptBuild

SpecBuildRace == Init /\ [][NextBuildRace]_vars

\* RTL change detection: files created, modified and deleted, status queries
\* and smart builds whose simulations and toolchain run pass or fail.
ChangeDetection ==
    \/ \E f \in Files, content \in Contents, ord \in Orders : AddFile(f, content, ord)
    \/ \E f \in Files, content \in Contents : ModifyFile(f, content)
    \/ \E f \in Files : DeleteFile(f)
    \/ WorkflowStatus
    \/ \E sims \in BOOLEAN, build \in BOOLEAN : smart_build(sims, build)

NextCache == ChangeDetection /\ UNCHANGED exceptCache

SpecCache == Init /\ [][NextCache]_vars

\* SpecBuildFair: the RTL builder with the scheduling the platform gives it:
\* a started thread runs, the toolchain run ends (at the latest by its bounded
\* timeout), a caller inside start_build goes on, and a wait on a set Event
\* returns.  Nothing obliges anyone to call start_build again.
WorkerStep ==
    (\E w \in Workers :
        \/ WorkerStart(w) \/ ToolReads(w)
        \/ \E how \in ToolOutcomes : ToolExit(w, how)
        \/ WorkerHash(w) \/ WorkerHashRaises(w) \/ WorkerSuccess(w) \/ WorkerSignal(w))
      /\ UNCHANGED exceptBuild
StartBuildStep == (StartBuildClear(1) \/ StartBuildSpawn(1)) /\ UNCHANGED exceptBuild
WaitStep == WaitForBuildReturn /\ UNCHANGED exceptBuild

\* One FirmwareBuilder.deploy call, with any binary, over a link that may fail
\* at any command.
Deploying ==
    \/ \E b \in Binaries : dep.pc = "idle" /\ DeployCall(b)
    \/ \E fault \in LinkFaults : DeployHalt(fault) \/ DeployReset(fault) \/ DeployRun(fault)
    \/ DeployWriteCall
    \/ \E fault \in Faults : DeployWriteWord(fault)
    \/ DeployWriteRaises
    \/ DeployWriteReturn

NextDeploy == Deploying /\ UNCHANGED exceptDeploy

SpecDeploy == Init /\ [][NextDeploy]_vars

\* The process from main to its exit: one operator command (or the standalone
\* hardware test runner), with the RTL build workers, the edits of the sources
\* and the link's faults around it.
WordFaults == {"none", "silent"}
Methods ==
    \/ \E how \in ToolOutcomes : ReloadBuild(how)
    \/ \E b \in BuiltBinaries : ReloadDeployCall(b)
    \/ ReloadDeployStep(LinkFaults, WordFaults)
    \/ \E fault \in LinkFaults : ReloadDeployReturn(fault)
    \/ /\ proc.command \in {"test", "hwtest"} \/ watch.pc = "quick"
       /\ RunSteps
       /\ UNCHANGED <<lvars, bvars, dvars, fvars>>
    \/ WatchFw \/ WatchAfterReload \/ WatchAfterQuick \/ WatchRtl
    \/ WatchStartBuild \/ WatchStartStep
    \/ WatchReady \/ WatchClear \/ WatchSleep \/ WatchInterrupt
Background ==
    \/ /\ \E w \in Workers :
            \/ WorkerStart(w) \/ ToolReads(w)
            \/ \E how \in ToolOutcomes : ToolExit(w, how)
            \/ WorkerHash(w) \/ WorkerHashRaises(w)
            \/ WorkerSuccess(w) \/ WorkerSignal(w)
       /\ UNCHANGED <<lvars, bvars, tvars, fvars>>
    \/ SourceEdited /\ UNCHANGED <<lvars, bvars, tvars, fvars>>
    \/ FwEdited
DevLoopRuns ==
    \/ \E what \in Commands, ok \in BOOLEAN : MainConnect(what, ok)
    \/ MainDispatch
    \/ proc.pc = "method" /\ (Methods \/ Background)
    \/ MainExit

NextDevLoop == DevLoopRuns /\ UNCHANGED exceptDevLoop

SpecDevLoop == Init /\ [][NextDevLoop]_vars

\* SpecReload: a session of `reload`: main connects, calls fw_reload once and
\* exits, while the firmware sources may be edited at any moment.
ReloadSession ==
    \/ \E ok \in BOOLEAN : MainConnect("reload", ok)
    \/ MainDispatch
    \/ /\ proc.pc = "method"
       /\ \/ \E how \in ToolOutcomes : ReloadBuild(how)
          \/ \E b \in BuiltBinaries : ReloadDeployCall(b)
          \/ ReloadDeployStep(LinkFaults, WordFaults)
          \/ \E fault \in LinkFaults : ReloadDeployReturn(fault)
    \/ FwEdited
    \/ MainExit

NextReload == ReloadSession /\ UNCHANGED exceptDevLoop

SpecReload == Init /\ [][NextReload]_vars

\* SpecWatchFair: a session of `watch` in which only RTL sources are edited,
\* with the scheduling the platform gives it: the thread in watch_and_reload
\* keeps running (its sleep ends, its calls return) and a started build
\* worker runs to its end.  Nothing obliges the operator to press Ctrl+C or to
\* edit a file.
WatchLoopStep ==
    /\ proc.pc = "method"
    /\ \/ WatchFw \/ WatchRtl
       \/ WatchStartBuild \/ WatchStartStep
       \/ WatchReady \/ WatchClear \/ WatchSleep
    /\ UNCHANGED exceptDevLoop
BuildWorkerStep ==
    /\ proc.pc = "method"
    /\ \E w \in Workers :
          \/ WorkerStart(w) \/ ToolReads(w)
          \/ \E how \in ToolOutcomes : ToolExit(w, how)
          \/ WorkerHash(w) \/ WorkerHashRaises(w)
          \/ WorkerSuccess(w) \/ WorkerSignal(w)
    /\ UNCHANGED <<lvars, bvars, tvars, fvars>>
    /\ UNCHANGED exceptDevLoop
WatchSession ==
    \/ \E ok \in BOOLEAN : MainConnect("watch", ok) /\ UNCHANGED exceptDevLoop
    \/ MainDispatch /\ UNCHANGED exceptDevLoop
    \/ WatchLoopStep
    \/ proc.pc = "method" /\ WatchInterrupt /\ UNCHANGED exceptDevLoop
    \/ BuildWorkerStep
    \/ /\ proc.pc = "method" /\ SourceEdited
       /\ UNCHANGED <<lvars, bvars, tvars, fvars>> /\ UNCHANGED exceptDevLoop
    \/ MainExit /\ UNCHANGED exceptDevLoop

SpecWatchFair ==
    Init /\ [][WatchSession]_vars /\ WF_vars(WatchLoopStep) /\ WF_vars(BuildWorkerStep)

SpecBuildFair ==
    Init /\ [][NextBuild]_vars /\ WF_vars(WorkerStep) /\ WF_vars(StartBuildStep) /\ WF_vars(WaitStep)

\* SpecFair: the send protocol with the scheduling the platform gives it: the
\* caller thread keeps running (a blocked get returns within its 0.1 s
\* timeout) and the clock reaches any deadline.
CallerStep ==
    (SendDrain \/ SendWrite \/ SendLoop \/ SendGetLine \/ SendGetEmpty) /\ UNCHANGED exceptConsole

SpecFair == Init /\ [][Next]_vars /\ WF_vars(CallerStep) /\ WF_vars(DeadlinePasses /\ UNCHANGED exceptConsole)

\* ----------------------------------------------------------------- claims
Range(s) == {s[i] : i \in 1..Len(s)}
Alive == {t \in Threads : rpc[t] \in {"loop", "split"}}
InSend == cpc \in {"drain", "write", "collect", "get"}
SendReturned == cpc = "idle" /\ ret.op = "send" /\ ~ret.exc
\* a line whose first character is '>'
IsPromptLine(line) == Len(line) >= 1 /\ Chars(line)[1] = ">"
\* the lines of s before its first prompt line (all of s when it has none)
RECURSIVE BeforePrompt(_)
BeforePrompt(s) == IF s = <<>> \/ IsPromptLine(Head(s)) THEN <<>>
                   ELSE <<Head(s)>> \o BeforePrompt(Tail(s))
NoPromptIn(s) == \A i \in 1..Len(s) : ~IsPromptLine(s[i])

\* C1: a send called while self.serial is None returns [] in that very step:
\* nothing is written, nothing is dequeued, no wait starts and nothing is raised.
C1_SendWhileDisconnected ==
    [][(nCmds' # nCmds /\ serial = "none")
          => /\ ret' = Ret("send", <<>>, TRUE, FALSE)
             /\ cpc' = "idle"
             /\ wire' = wire
             /\ response_queue' = response_queue]_vars

\* C1 witness: a send has returned on a console that was connected and then
\* disconnected.
C1_Witness == ret.op = "send" /\ serial = "none" /\ reader_thread # 0 /\ cpc = "idle"

\* C2: every line a send dequeues after its write (the lines it returns and the
\* prompt that ends it) was emitted by the target in reply to that send's command.
C2_NoStaleReply ==
    \A i \in 1..Len(deq) : \A j \in 1..Len(deq[i]) : deq[i][j].cmd = cmd

\* C3: from the write on, none of the lines that were queued when send was
\* called is still queued, and none is among the lines collected or returned.
C3_StaleLinesDiscarded ==
    (cpc \in {"write", "collect", "get"} \/ SendReturned)
        => stale \cap (Range(response_queue) \cup Range(responses)
                          \cup Range(deq) \cup Range(ret.val)) = {}

\* C3 witness: a send that found lines queued when it was called has returned
\* lines of its own.
C3_Witness == SendReturned /\ stale # {} /\ ret.val # <<>>

\* C4: what send returns is the sequence of lines it dequeued after the write,
\* in that order, cut before the first prompt line; nothing is dequeued after a
\* prompt line; while it collects, `responses` is exactly the lines dequeued.
C4_ResultIsPrefixBeforePrompt ==
    /\ \A i \in 1..(Len(deq) - 1) : ~IsPromptLine(deq[i])
    /\ cpc \in {"collect", "get"} => responses = deq
    /\ SendReturned => ret.val = BeforePrompt(deq)

\* C4 witness: a send returned at a prompt with lines collected while a later
\* line is waiting in the queue.
C4_Witness ==
    /\ SendReturned /\ ret.val # <<>>
    /\ deq # <<>> /\ IsPromptLine(deq[Len(deq)])
    /\ response_queue # <<>>

\* C5: a send that has written its command returns; when it has dequeued no
\* prompt line it returns, after the deadline has passed, exactly the lines it
\* collected, and raises nothing.
C5_SendReturnsAtDeadline ==
    (cpc \in {"collect", "get"})
        ~> (SendReturned /\ (NoPromptIn(deq) => (expired /\ ret.val = deq)))

\* C5 witness: a send returned at the deadline with a line collected and no prompt.
C5_Witness == SendReturned /\ expired /\ NoPromptIn(deq) /\ ret.val # <<>>

\* C6: at most one reader thread is alive at any time, and exactly one is alive
\* while the console is connected and no call is in progress.
C6_OneReader ==
    /\ Cardinality(Alive) <= 1
    /\ (cpc = "idle" /\ serial = "open") => Cardinality(Alive) = 1

\* C7: a reader ends only when the running flag is clear, only disconnect
\* clears the flag, and a read that raises leaves the reader where it was, at the
\* head of its loop with its buffer and the unread input intact.
C7_ReaderSurvivesReadErrors ==
    [][/\ \A t \in Threads : (rpc[t] # "dead" /\ rpc'[t] = "dead") => ~running
       /\ (running /\ ~running') => (cpc = "idle" /\ cpc' \in {"join", "close"})
       /\ (errAt' # errAt) => (rpc' = rpc /\ rbuf' = rbuf /\ rx' = rx)]_vars

\* C7 witness: a read raised before any command was sent, and a line that
\* arrived later is in the queue.
C7_Witness == errAt = 0 /\ response_queue # <<>> /\ running

\* C8: once disconnect has returned, no line is enqueued and no reader is
\* left looping on a set running flag.
C8_QuietAfterDisconnect ==
    [][(cpc = "idle" /\ serial = "none" /\ reader_thread # 0)
          => Len(response_queue') <= Len(response_queue)]_vars

\* C9: when the target answered both calls, a read of an address made right
\* after a write to it returns the word written (and that write returned True).
C9_ReadAfterWrite ==
    /\ (reg.op = "write" /\ reg.fault = "none") => reg.ok
    /\ (reg.op \in {"read", "show"} /\ reg.fault = "none" /\ reg.after.some)
          => reg.val = reg.after

\* C9 witness: a read right after a write of 0x0abcdef0 returned that word.
C9_Witness ==
    reg.op = "read" /\ reg.fault = "none" /\ reg.after = Some(180150000)
        /\ reg.val = Some(180150000)

OkZero == <<"O", "K", ":", "0", "0", "0", "0", "0", "0", "0", "0">>

\* C10: a response "OK:00000000" reads as the value 0 and is displayed as a
\* value, never as a failure; a response that is no "OK:<hex>" line reads as None.
C10_ZeroIsNotFailure ==
    /\ (reg.op \in {"read", "show"} /\ reg.response = OkZero) => reg.val = Some(0)
    /\ (reg.op \in {"read", "show"} /\ reg.fault # "none") => reg.val = NoneV
    /\ (reg.op = "show" /\ reg.response = OkZero) => shown # Failed

\* ---- write_block
BlockDone == wb.pc = "done"
\* the byte at offset j of the data (from 0), zero beyond its end
ByteAt(data, j) == IF j < Len(data) THEN data[j + 1] ELSE 0
\* bytes 4i .. 4i+3 as a little-endian word
WordOf(data, i) ==
    ByteAt(data, 4 * i) + 256 * ByteAt(data, 4 * i + 1)
        + 65536 * ByteAt(data, 4 * i + 2) + 16777216 * ByteAt(data, 4 * i + 3)
NumWords(data) == (Len(data) + 3) \div 4

\* C11: when every word write succeeds, write_block issues exactly
\* ceil(len(data)/4) write commands, the i-th to addr + 4*i in increasing order
\* of i, carrying bytes 4i..4i+3 as a little-endian word with missing bytes
\* zero, the target's memory holds those words, and the call returns True; for
\* empty data it issues nothing and returns True.
C11_BlockWritesEveryWord ==
    (BlockDone /\ wb.failedAt = -1) =>
        /\ wb.ret = TRUE
        /\ Len(issued) = NumWords(wb.data)
        /\ \A i \in 0..(NumWords(wb.data) - 1) :
              /\ issued[i + 1] = <<Fmt08x(wb.addr + 4 * i), Fmt08x(WordOf(wb.data, i))>>
              /\ bmem[wb.addr + 4 * i] = WordOf(wb.data, i)
        /\ (wb.data = <<>> => issued = <<>>)
\* a block with a full word whose bytes differ and a partial final word was written
C11_Witness ==
    /\ BlockDone /\ wb.failedAt = -1 /\ wb.ret
    /\ Len(wb.data) = 5 /\ wb.data[1] = 127 /\ wb.data[2] = 0 /\ wb.data[5] = 127
    /\ Len(issued) = 2

\* C12: if the write of word i fails, write_block returns False, no write is
\* issued for any later word, and the words before i stay written.
C12_BlockStopsAtFailure ==
    (BlockDone /\ wb.failedAt # -1) =>
        /\ wb.ret = FALSE
        /\ Len(issued) = wb.failedAt + 1
        /\ \A k \in 0..(wb.failedAt - 1) : bmem[wb.addr + 4 * k] = WordOf(wb.data, k)
\* the second word of a two-word block failed after the first was written
C12_Witness ==
    /\ BlockDone /\ wb.failedAt = 1 /\ ~wb.ret
    /\ Len(wb.words) = 2 /\ wb.words[1] # 0 /\ bmem[wb.addr] = wb.words[1]

\* ---- test runner
AllDone == run.pc = "done" /\ run.kind = "all"
QuickDone == run.pc = "done" /\ run.kind = "quick"
\* the events of the run in which the test function was invoked
IsInvoked(e) == e.ev \in {"ret", "raise"}
Invoked == SelectSeq(log, IsInvoked)
EventNames(events) == [i \in 1..Len(events) |-> events[i].name]
TestNames(ts) == [i \in 1..Len(ts) |-> ts[i].name]
\* the layer the target reports for a register word
LayerOf(word) == IF word.some THEN word.v % 16 ELSE -1

\* C13: in run_all and in run_quick a test whose layer_required is greater
\* than the layer read from the target is never invoked; in run_all its
\* recorded outcome is SKIP.
C13_GatedTestNeverRuns ==
    /\ \A i \in 1..Len(log) : IsInvoked(log[i]) => log[i].layer_required <= log[i].layer
    /\ \A i \in 1..Len(log) : log[i].layer \in {LayerOf(w) : w \in LayerWords}
    /\ AllDone => \A i \in 1..Len(tests) :
          tests[i].layer_required > run.layer =>
              /\ results[tests[i].name] = "SKIP"
              /\ \A j \in 1..Len(log) : log[j].name = tests[i].name => ~IsInvoked(log[j])
\* a run_all at layer 3 that skipped a layer-5 test after running a layer-2 test
C13_Witness ==
    /\ AllDone /\ run.layer = 3 /\ Len(tests) = 3
    /\ Len(Invoked) = 1 /\ Invoked[1].layer_required = 2
    /\ \E i \in 1..Len(log) : log[i].ev = "skip" /\ log[i].layer_required = 5

\* the tests the layer admits, in registration order
IsAdmitted(test) == test.layer_required <= run.layer
Admitted == SelectSeq(tests, IsAdmitted)
LayersOf(ts) == [i \in 1..Len(ts) |-> ts[i].layer_required]
FnReturnedSkip(name) == \E j \in 1..Len(log) : log[j].name = name /\ log[j].ev = "ret" /\ log[j].outcome = "SKIP"

\* C14: in a full run (run_all, min_layer 0) every registered test whose
\* layer_required is at most the current layer is invoked exactly once, in
\* registration order, and not skipped by the gate; with layers [2, 5, 5] at
\* layer 5 nothing is skipped, at layer 3 the layer-2 test runs and both
\* layer-5 tests are SKIP.
C14_FullRunInvokesAdmitted ==
    (AllDone /\ run.min_layer = 0) =>
        /\ EventNames(Invoked) = TestNames(Admitted)
        /\ \A j \in 1..Len(log) : log[j].ev = "skip" => log[j].layer_required > run.layer
        /\ (LayersOf(tests) = <<2, 5, 5>> /\ run.layer = 5) =>
              /\ Len(Invoked) = 3
              /\ \A n \in Names : results[n] = "SKIP" => FnReturnedSkip(n)
        /\ (LayersOf(tests) = <<2, 5, 5>> /\ run.layer = 3) =>
              /\ EventNames(Invoked) = <<"a">>
              /\ results["b"] = "SKIP" /\ results["c"] = "SKIP"
\* the suite [2, 5, 5] ran in full at layer 5
C14_Witness ==
    /\ AllDone /\ run.min_layer = 0 /\ LayersOf(tests) = <<2, 5, 5>> /\ run.layer = 5
    /\ EventNames(Invoked) = <<"a", "b", "c">>
    /\ \A n \in Names : results[n] \in {"PASS", "FAIL"}

\* whether s is a subsequence of t (same order, gaps allowed)
RECURSIVE IsSubSeq(_, _)
IsSubSeq(a, b) ==
    IF a = <<>> THEN TRUE
    ELSE IF b = <<>> THEN FALSE
    ELSE IF Head(a) = Head(b) THEN IsSubSeq(Tail(a), Tail(b))
    ELSE IsSubSeq(a, Tail(b))
Passed(e) == e.ev = "ret" /\ e.outcome = "PASS"

\* C15: run_quick considers only tests with timeout below 5.0 s, in
\* registration order, and stops at the first attempted test that does not
\* return PASS: it returns False and invokes nothing more; it returns True
\* only if every attempted test returned PASS.
C15_QuickFailsFast ==
    /\ run.kind = "quick" =>
          /\ \A j \in 1..Len(Invoked) : Invoked[j].timeout < 5
          /\ IsSubSeq(EventNames(Invoked), TestNames(tests))
          /\ \A j \in 1..(Len(Invoked) - 1) : Passed(Invoked[j])
    /\ QuickDone =>
          /\ run.ret = (\A j \in 1..Len(Invoked) : Passed(Invoked[j]))
          /\ ~run.ret => Invoked # <<>> /\ ~Passed(Invoked[Len(Invoked)])
\* quick run of three quick tests: the first passed, the second failed, the third was not invoked
C15_Witness ==
    /\ QuickDone /\ ~run.ret /\ Len(run.list) = 3
    /\ Len(Invoked) = 2 /\ Passed(Invoked[1]) /\ Invoked[2].outcome = "FAIL"

\* the outcomes the run produced, one per test it skipped or invoked
Produced == {IF log[j].ev = "raise" THEN "ERROR" ELSE log[j].outcome :
                j \in {k \in 1..Len(log) : log[k].ev # "filtered"}}

\* C16: DevLoop.run_tests(quick=False) returns True if and only if no test
\* outcome of the run is FAIL or ERROR; SKIP outcomes never make it return False.
C16_AggregateSuccess ==
    (AllDone /\ run.via = "run_tests") =>
        /\ run.ret = (Produced \cap {"FAIL", "ERROR"} = {})
        /\ (Produced \subseteq {"PASS", "SKIP"}) => run.ret
\* a full run through run_tests with a gate SKIP and a PASS returned True
C16_Witness ==
    /\ AllDone /\ run.via = "run_tests" /\ run.ret
    /\ \E j \in 1..Len(log) : log[j].ev = "skip"
    /\ \E j \in 1..Len(log) : Passed(log[j])

\* C17: in run_all a test function that raises is recorded ERROR, one that
\* returns FAIL is recorded FAIL, and in both cases the run goes on with the
\* next registered test.
C17_RaiseIsErrorRunGoesOn ==
    /\ run.kind = "all" =>
          \A j \in 1..Len(log) :
              /\ log[j].name = tests[j].name
              /\ (j < Len(log) \/ run.pc = "done") =>
                    /\ log[j].ev = "raise" => results[log[j].name] = "ERROR"
                    /\ (log[j].ev = "ret" /\ log[j].outcome = "FAIL") => results[log[j].name] = "FAIL"
    /\ AllDone => Len(log) = Len(tests)
\* a run_all in which the first test raised, the second returned FAIL and the third passed
C17_Witness ==
    /\ AllDone /\ Len(log) = 3
    /\ log[1].ev = "raise" /\ log[2].ev = "ret" /\ log[2].outcome = "FAIL" /\ Passed(log[3])
    /\ results["a"] = "ERROR" /\ results["b"] = "FAIL" /\ results["c"] = "PASS"

\* ---- RTL builder
AliveWorkers == {w \in Workers : WorkerAlive(w)}
\* a start_build call that found the previous worker alive
BusyCall(c) == spc[c] = "idle" /\ build_thread # 0 /\ WorkerAlive(build_thread) /\ StartBuildCheck(c)

\* C18: with calls serialized by one caller, a start_build made while the
\* worker of a previous start_build is alive spawns no worker, does not clear
\* the completion signal and leaves build_thread and build_status unchanged;
\* never more than one worker is alive, so exactly one runs to completion.
C18_SecondStartIsNoOp ==
    [][ /\ BusyCall(1) => UNCHANGED <<build_thread, build_status, bitstream_ready, wpc, spc>>
        /\ Cardinality(AliveWorkers) <= 1
        /\ (spc[1] = "idle" /\ spc'[1] # "idle") => AliveWorkers = {} ]_vars
\* start_build was called while the first worker was running its toolchain,
\* and returned: no second worker exists
C18_Witness ==
    /\ busy /\ build_thread = 1 /\ wpc[1] = "run" /\ spc[1] = "idle" /\ build_status = "running"
    /\ wpc[2] = "unborn"

\* C19: for any interleaving of start_build calls by concurrent callers, at
\* most one build worker is alive at any moment.
C19_OneWorkerAlive == Cardinality(AliveWorkers) <= 1
\* C19, as the program has it: at most one build worker is alive as long as no
\* start_build call has passed its liveness test while another call was under
\* way (the callers serialize their calls).
C19_OneWorkerAliveIfSerialized == ~raced => Cardinality(AliveWorkers) <= 1
\* two callers have called start_build one after the other; one worker is
\* alive and the second call found it so
C19_Witness ==
    /\ ~raced /\ busy /\ Cardinality(AliveWorkers) = 1
    /\ spc = [c \in BuildCallers |-> "idle"]

\* the status a worker leaves for each way its run can end
StatusFor(how) ==
    CASE how = "exit0" -> "success"
      [] how = "nonzero" -> "failed"
      [] how = "timeout" -> "timeout"
      [] how = "exception" -> "error"

\* C20: a build worker ends in the status matching the toolchain outcome
\* (success on exit code 0, failed on non-zero exit, timeout on the bounded
\* timeout, error on any other exception); only the success outcome sets the
\* completion signal and updates last_hash, the other three leave both unchanged.
C20_WorkerOutcome ==
    [][\A w \in Workers :
          /\ (WorkerAlive(w) /\ wpc'[w] = "dead") =>
                /\ build_status' = StatusFor(ended'[w])
                /\ ended'[w] = "exit0" => (bitstream_ready' /\ last_hash'.some)
          /\ (wpc'[w] # wpc[w] /\ ended'[w] \notin {"none", "exit0"}) =>
                UNCHANGED <<bitstream_ready, last_hash>>
          /\ (wpc'[w] # wpc[w] /\ last_hash' # last_hash) =>
                (ended[w] = "exit0" /\ last_hash' = get_source_hash(sources))
          /\ (wpc'[w] # wpc[w] /\ bitstream_ready' # bitstream_ready) =>
                (ended[w] = "exit0" /\ bitstream_ready' /\ build_status = "success") ]_vars
\* a first build succeeded and set the signal and the hash; a second one has
\* failed and left both as they were
C20_Witness ==
    /\ wpc[1] = "dead" /\ ended[1] = "exit0"
    /\ wpc[2] = "dead" /\ ended[2] = "timeout" /\ build_status = "timeout"
    /\ last_hash.some

LastWorkerDone == build_thread # 0 /\ wpc[build_thread] = "dead"

\* C21: after start_build, a caller blocked in wait_for_build with no timeout
\* is eventually released once the background worker has finished, whether
\* the build ended in success, failed, timeout or error.
C21_WaiterReleased == (waiter = "waiting" /\ LastWorkerDone) ~> (waiter = "released")

\* ---- RTL change detection
\* the modules a scan of the directory finds now, and the cached hashes
Scanned == scan_rtl_modules(fs, order)
ScannedNames == {n \in ModNames : Scanned[n] # NoEntry}
Cached(n) == IF cache.exists THEN cache.hashes[n] ELSE NoEntry
ChangedNow == ChangedList(fs, order, cache)

\* C22: smart_build writes the change cache only after the build reports
\* success: when a simulation check or the build fails the cache file is left
\* untouched, and get_changed_modules on the unchanged sources returns the
\* same changed set as before the failed attempt.
C22_CacheWrittenOnlyOnSuccess ==
    [][ /\ (last'.op = "build" /\ ~last'.ret) =>
              /\ cache' = cache
              /\ ChangedList(fs', order', cache') = ChangedList(fs, order, cache)
              /\ ChangedList(fs', order', cache') = last'.changed
        /\ cache' # cache => (last'.op = "build" /\ last'.ret /\ last'.changed # <<>>) ]_vars
\* after a successful build a file was modified and the next smart_build
\* failed: the cache still exists and the module is still reported changed
C22_Witness ==
    /\ last.op = "build" /\ ~last.ret /\ last.changed = <<"m">>
    /\ cache.exists /\ cache.hashes["m"] # NoEntry
    /\ ChangedNow = <<"m">>

\* C23: get_changed_modules returns exactly the scanned module names that are
\* absent from the cache or whose hash differs from the cached hash (a missing
\* cache file counts as an empty cache); the result is empty if and only if
\* every scanned module's hash equals its cached hash.
C23_ChangedIsAbsentOrDiffers ==
    last.op = "status" =>
        /\ Range(last.changed) = {n \in ScannedNames : Cached(n) = NoEntry \/ Cached(n) # Scanned[n]}
        /\ (last.changed = <<>>) = (\A n \in ScannedNames : Cached(n) = Scanned[n])
        /\ ~cache.exists => Range(last.changed) = ScannedNames
\* a status query with a cache that holds both modules, of which one has changed
C23_Witness ==
    /\ last.op = "status" /\ last.changed = <<"m">>
    /\ cache.exists /\ Cached("m") # NoEntry /\ Cached("n") = Scanned["n"] /\ Scanned["n"] # NoEntry

\* C24: starting from an empty changed list, adding or modifying one tracked
\* .v or .sv file makes exactly that file's module appear in
\* get_changed_modules(scan_rtl_modules(dir), cache) and no other, whatever
\* the scan order, also when two tracked files share a stem.
C24_OneEditOneModule ==
    [][ \A f \in Files :
          (last'.op \in {"add", "modify"} /\ last'.file = f /\ fs' # fs
               /\ ChangedList(fs, order, cache) = <<>>)
            => Range(ChangedList(fs', order', cache')) = {FileInfo[f].stem} ]_vars

\* ------------------------------------------------------------ deploy
DeployOver == dep.pc = "done"
\* the commands issued before the k-th all succeeded
AllOkBefore(k) == \A j \in 1..(k - 1) : sent[j].ok
\* the write command deploy owes for word i (from 0) of the binary
WordCmd(i) == <<"w", Fmt08x(1073741824 + 4 * i), Fmt08x(WordOf(binary.bytes, i))>>
HaltAt(k) == sent[k].c = <<"halt">>
ResetAt(k) == sent[k].c = <<"reset">>
RunAt(k) == sent[k].c = <<"run">>

\* C25: deploy issues its console commands in the fixed order cpu halt, one
\* memory write per word of the binary from 0x40000000 upwards, cpu reset, cpu
\* run: the first command is halt, the write of word i is the (i+2)-th command,
\* reset follows the last word and run follows reset, and every command is
\* issued only after all the commands before it succeeded; a deploy that
\* returns True has issued all of them.
C25_DeployOrder ==
    LET n == NumWords(binary.bytes)
    IN /\ \A k \in 1..Len(sent) :
            /\ AllOkBefore(k)
            /\ CASE k = 1 -> HaltAt(k)
                 [] k \in 2..(n + 1) -> sent[k].c = WordCmd(k - 2)
                 [] k = n + 2 -> ResetAt(k)
                 [] k = n + 3 -> RunAt(k)
                 [] OTHER -> FALSE
       /\ (DeployOver /\ dep.ret = "True") =>
              (Len(sent) = n + 3 /\ sent[n + 3].ok)

\* C25 witness: a binary of two words, not a multiple of four bytes long, has
\* been deployed to the end.
C25_Witness ==
    /\ DeployOver /\ dep.ret = "True"
    /\ Len(binary.bytes) = 5 /\ binary.bytes[5] # 0
    /\ Len(sent) = 5

\* C26: a deploy in which a step fails returns False and issues nothing after
\* the failed command; after a successful halt, a failed block write or reset
\* sends no 'dbg cpu run' and leaves the target halted; without a binary deploy
\* returns False and issues no command.
C26_DeployShortCircuits ==
    DeployOver =>
        /\ (\E k \in 1..Len(sent) : ~sent[k].ok) =>
              (dep.ret = "False" /\ ~sent[Len(sent)].ok /\ AllOkBefore(Len(sent)))
        /\ (Len(sent) >= 2 /\ ~sent[Len(sent)].ok /\ ~RunAt(Len(sent))) =>
              ((\A k \in 1..Len(sent) : ~RunAt(k)) /\ cpu # "running")
        /\ (~binary.exists \/ binary.bytes = <<>>) => (dep.ret = "False" /\ sent = <<>>)

\* C26, what holds of a failed step whether or not the failure is an
\* exception: nothing is issued after it, no 'dbg cpu run' follows a failed
\* block write or reset, and deploy does not return True.
C26_NothingAfterFailure ==
    DeployOver =>
        /\ (\E k \in 1..Len(sent) : ~sent[k].ok) =>
              (dep.ret # "True" /\ ~sent[Len(sent)].ok /\ AllOkBefore(Len(sent)))
        /\ (Len(sent) >= 2 /\ ~sent[Len(sent)].ok /\ ~RunAt(Len(sent))) =>
              ((\A k \in 1..Len(sent) : ~RunAt(k)) /\ cpu # "running")
        /\ (~binary.exists \/ binary.bytes = <<>>) => (dep.ret = "False" /\ sent = <<>>)

\* -------------------------------------------------------- dev loop
WatchAborted == watch.pc = "aborted"
Exited == proc.pc = "exited"
\* the method main called came back and reported success
MethodSucceeded ==
    CASE proc.command = "status" -> st.ret = "None"
      [] proc.command = "reload" -> rel.ret = "True"
      [] proc.command = "test" -> run.pc = "done" /\ ~run.exc /\ run.ret
      [] proc.command = "watch" -> watch.pc = "stopped"
      [] OTHER -> run.pc = "done" /\ ~run.exc
                    /\ \A n \in Names : results[n] \notin {"FAIL", "ERROR"}

\* C27: no outcome of a build ends the watch loop: a firmware build inside
\* watch_and_reload that exceeds its timeout (as one that succeeds or exits
\* non-zero) is followed by the next polling iteration, so the loop is never
\* ended by the build's TimeoutExpired.
C27_BuildNeverAbortsWatch == WatchAborted => watch.exc # "TimeoutExpired"

\* C28: a failed transport write or a silent target never crashes the
\* controller: no exception of the console leaves DevLoop.status, fw_reload,
\* run_tests or an iteration of watch_and_reload.
C28_NoTransportCrash ==
    /\ st.ret # "raise"
    /\ ~(rel.ret = "raise" /\ rel.exc = "transport")
    /\ ~run.exc
    /\ ~(WatchAborted /\ watch.exc = "transport")

\* C29: for status, reload, test, watch and the standalone hardware test
\* runner, the process exits with code 0 exactly when the method the command
\* maps to reported aggregate success; a failed reload and a test run with a
\* FAIL or ERROR outcome exit non-zero.
C29_ExitCodeIsSuccess == Exited => (proc.exit = 0 <=> MethodSucceeded)

\* C30: when the bring-up layer cannot be read (silent target, failed
\* transport), a full run through run_tests and a quick run do not report
\* aggregate success.
C30_SilentTargetFailsRun ==
    (run.pc = "done" /\ run.via = "run_tests" /\ ~layerReg.some) => ~run.ret

\* -------------------------------------------------- test runner, runs
\* the events of the run in which the gate skipped the test
IsGateSkip(e) == e.ev = "skip"
\* the names of the tests the run skipped or invoked
Touched == {log[j].name : j \in {k \in 1..Len(log) : log[k].ev # "filtered"}}

\* C31: run_all applies the layer it read at the start of the run to the gate
\* of every test: each test it reaches is skipped exactly when its required
\* layer is above that value, whatever the target's layer has become since.
C31_LayerReadOnce ==
    run.kind = "all" =>
        \A j \in 1..Len(log) :
            /\ log[j].layer = run.layer
            /\ IsGateSkip(log[j]) <=> log[j].layer_required > run.layer
\* a full run that started at layer 3 skipped a layer-5 test although the
\* target had reached layer 5 before the test's turn
C31_Witness ==
    /\ AllDone /\ run.layer = 3 /\ LayerOf(layerReg) = 5
    /\ Len(log) = 3 /\ log[1].ev = "ret" /\ log[1].layer_required = 2
    /\ IsGateSkip(log[2]) /\ IsGateSkip(log[3])
    /\ results["c"] = "SKIP"

\* C32: the result map run_all returns holds only outcomes this run produced:
\* every name with an entry was skipped or invoked by this run.
C32_ResultsOfThisRun ==
    AllDone => \A n \in Names : results[n] # "none" => n \in Touched

\* ------------------------------------------------ RTL builder, status
Terminal == {"success", "failed", "timeout", "error"}
\* worker w takes the step in which its thread begins to run
Begins(w) == wpc[w] = "start" /\ wpc'[w] = "run"

\* C33: build_status is idle until the first worker runs and changes only one
\* way: from idle or a terminal value to running, set by the worker of the
\* latest start_build as it starts, and from running to one terminal value
\* (success, failed, timeout, error), set by that worker; a terminal value
\* stays until the worker of a later start_build starts.
C33_StatusOneWay ==
    [][ /\ (build_thread = 0 => build_status = "idle")
        /\ build_status' # build_status =>
              \/ /\ build_status \in {"idle"} \cup Terminal
                 /\ build_status' = "running"
                 /\ build_thread # 0 /\ Begins(build_thread)
              \/ /\ build_status = "running"
                 /\ build_status' \in Terminal
                 /\ WorkerAlive(build_thread) /\ wpc'[build_thread] # wpc[build_thread]
        /\ \A w \in Workers : Begins(w) => build_status' = "running" ]_vars
\* a first build has failed and the worker of a second start_build is running
C33_Witness ==
    /\ wpc[1] = "dead" /\ ended[1] = "nonzero"
    /\ build_thread = 2 /\ wpc[2] = "run" /\ build_status = "running"

\* C34: is_building() is truthy exactly while a build worker thread is alive;
\* once the worker has returned it is falsy, also while build_status is
\* 'success' and the completion signal is set and unconsumed.
C34_BuildingIsLiveness ==
    /\ is_building <=> AliveWorkers # {}
    /\ (LastWorkerDone /\ build_status = "success" /\ bitstream_ready) => ~is_building
\* the worker has finished with success, its signal is set, and is_building()
\* is falsy
C34_Witness ==
    /\ build_thread = 1 /\ wpc[1] = "dead" /\ build_status = "success" /\ bitstream_ready
    /\ ~is_building

\* ------------------------------------------------- watch loop and builds
\* the builds that finished with success
Succeeded == {w \in Workers : wpc[w] = "dead" /\ ended[w] = "exit0"}

\* C35: in watch_and_reload every RTL build that finishes with success gets
\* exactly one notification, and the signal is cleared after it: a set signal
\* is cleared only by the loop's own clear that follows a notification, a
\* notification is printed only for a set signal, and there are never more
\* notifications than successful builds.
C35_EverySuccessNotifiedOnce ==
    [][ /\ (bitstream_ready /\ ~bitstream_ready') => watch.pc = "clear"
        /\ watch'.notes # watch.notes => (bitstream_ready /\ watch'.notes = watch.notes + 1)
        /\ watch.notes <= Cardinality(Succeeded) ]_vars

\* the names the cache holds and the current scan does not find
DeletedNames == {n \in ModNames : Cached(n) # NoEntry /\ n \notin ScannedNames}

\* C36: a module whose name is in the cache and absent from the current scan
\* is never reported as changed, by status or by smart_build; and when such
\* deletions are the only difference between the cache and the scan,
\* smart_build reports no change, calls no build, leaves the cache untouched
\* and returns True.
C36_DeletionIsNoChange ==
    [][ /\ (last'.op \in {"status", "build"} /\ fs' = fs) =>
              Range(last'.changed) \cap DeletedNames = {}
        /\ (last'.op = "build" /\ fs' = fs /\ DeletedNames # {}
               /\ \A n \in ScannedNames : Cached(n) = Scanned[n]) =>
              /\ last'.changed = <<>>
              /\ last'.ret
              /\ ~last'.built
              /\ cache' = cache ]_vars

C36_Witness ==
    /\ last.op = "build" /\ last.changed = <<>> /\ last.ret /\ ~last.built
    /\ DeletedNames = {"n"}
    /\ ScannedNames = {"m"} /\ Cached("m") = Scanned["m"]

\* C37: FirmwareBuilder.build returning False leaves last_hash as it was, so
\* needs_rebuild() keeps its value for unchanged sources; build returning True
\* sets last_hash so that needs_rebuild() is False, and it stays False while
\* the sources do not change; while last_hash is None, that is before the
\* first successful build, needs_rebuild() is True.
C37_HashFollowsSuccessfulBuild ==
    [][ /\ (rel.pc = "build" /\ rel'.pc = "done") =>
              /\ fw_last_hash' = fw_last_hash
              /\ fw_needs_rebuild' = fw_needs_rebuild
        /\ (rel.pc = "build" /\ rel'.pc = "deploy") =>
              /\ fw_last_hash' = fw_source_hash(fwsrc)
              /\ ~fw_needs_rebuild'
        /\ fw_last_hash' # fw_last_hash => (rel.pc = "build" /\ rel'.pc = "deploy")
        /\ (~fw_needs_rebuild /\ fwsrc' = fwsrc) => ~fw_needs_rebuild'
        /\ fw_last_hash = NoneV => fw_needs_rebuild ]_vars

\* build returned False (deploy was never called) and needs_rebuild() is True
C37_Witness ==
    /\ console /\ rel.pc = "done" /\ rel.ret = "False"
    /\ dep.pc = "idle"
    /\ fw_last_hash = NoneV
    /\ fw_needs_rebuild

C39_HashIsOfBuiltSources ==
    [][ \A w \in Workers :
          (wpc[w] = "hash" /\ wpc'[w] = "status") =>
              /\ last_hash' = get_source_hash(built[w])
              /\ sources # built[w] => rtl_needs_rebuild' ]_vars

\* the loop of watch_and_reload has not ended
Watching == watch.pc \notin {"off", "stopped", "aborted"}
\* the loop has recorded the hash of version S of the RTL sources while worker
\* B is alive with a toolchain run that read an older version
ObservedInFlight(S, B) ==
    /\ Watching /\ proc.pc = "method"
    /\ sources = S /\ watch.last_rtl_hash = get_source_hash(S)
    /\ build_thread = B /\ WorkerAlive(B)
    /\ built[B] # -1 /\ built[B] # S

\* C40: in watch_and_reload, an RTL change that the loop observes while a
\* build is in flight is not lost: unless the sources change again or the
\* loop ends, a new build is started afterwards.
C40_ObservedChangeIsBuilt ==
    \A S \in 0..MaxEdits : \A B \in Workers :
        ObservedInFlight(S, B) ~>
            (build_thread # B \/ sources # S \/ ~Watching \/ proc.pc # "method")

====
